---- MODULE Spec2Model ----
(***************************************************************************)
(* Table reconstruction for campaign-finance and financial-disclosure      *)
(* filings: the amount-range parser of alaska_project, the header          *)
(* detectors, row segmenters and row consolidators of disclosure_parser,   *)
(* and the batch entry points of finance_pipeline / alaska_project.        *)
(*                                                                         *)
(* Texts are strings; Len, SubSeq, Tail and \o act on them character by    *)
(* character, so the substring tests of the code are computed as the code  *)
(* computes them.  Optional[int] is a sequence: <<>> for None, <<v>> for v.*)
(***************************************************************************)
EXTENDS Integers, Sequences, FiniteSets, TLC

VARIABLES
    amount,        \* parse_amount_bounds: the argument
    bounds,        \* parse_amount_bounds: pending, or the returned (min, max)
    schedule,      \* consolidate_schedule_*: which schedule's consolidator is called
    segmented,     \* consolidate_schedule_*: the argument rows
    consolidated,  \* consolidate_schedule_*: pending, or the returned rows
    page_schedule, \* extract_schedule_*_from_pdf: which schedule is being extracted
    page_words,    \* the words of the page at hand
    carried,       \* collecting, column_starts, header_top as earlier pages left them
    header_info,   \* pending, or what find_schedule_*_header did
    page_result,   \* pending, skipped, or what parse_schedule_*_page returned
    entry,         \* the entry point that is running
    source,        \* the input path: whether it exists, is a directory, its PDFs
    prior_outputs, \* whether an earlier run left output directories behind
    pc,            \* start, loop, raised or returned
    pdf_index,     \* the loop's position in the sorted PDF list
    fs_ops,        \* the creations, writes and deletions done on the output side
    produced,      \* the positions of the PDFs whose output has been written
    az_call,       \* AZReportParser: the parse_* method that is called
    az_pages,      \* AZReportParser: the text lines of the reader's pages
    az_entries,    \* AZReportParser: pending, or the returned entries
    pofd_tables,   \* gather_schedule_rows: the tables of the PDF's pages, in order
    pofd_metadata, \* gather_schedule_rows: the metadata argument
    pofd_rows,     \* gather_schedule_rows: pending, or the returned schedule rows
    xl_rows,       \* write_excel: the schedule_rows argument
    xl_notes,      \* write_excel: the schedule_notes argument
    xl_sheets,     \* write_excel: pending, or the sheets written in order
    sheetnames,    \* csv_to_workbook: workbook.sheetnames
    col_schedule,  \* assign_schedule_*_column: which schedule's assigner is called
    col_x0,        \* assign_schedule_*_column: the argument x0
    col_starts,    \* assign_schedule_*_column: the argument column_starts
    col_assigned,  \* assign_schedule_*_column: 0 while pending, or the column returned
    ex_schedule,   \* extract_schedule_*_from_pdf: which schedule's extractor runs
    ex_pages,      \* the words of each page of the PDF
    ex_idx,        \* the page the loop comes to next
    ex_carried,    \* collecting, column_starts, header_top
    ex_rows,       \* rows, as extended page by page
    ex_trace,      \* per page gone through: skipped or segmented, its rows, its flag
    ex_pc,         \* loop, broke, raised or returned
    ex_out,        \* the rows returned
    dp_lines,      \* DocumentParser: self.lines
    dp_idx,        \* self.idx, counting from 0
    dp_page,       \* self.page
    dp_schedule,   \* self.schedule
    dp_part,       \* self.part
    dp_results,    \* self.results
    dp_steps       \* iterations of the main loop of parse so far

amountVars == <<amount, bounds>>
consVars == <<schedule, segmented, consolidated>>
pageVars == <<page_schedule, page_words, carried, header_info, page_result>>
batchVars == <<entry, source, prior_outputs, pc, pdf_index, fs_ops, produced>>
azVars == <<az_call, az_pages, az_entries>>
pofdVars == <<pofd_tables, pofd_metadata, pofd_rows>>
excelVars == <<xl_rows, xl_notes, xl_sheets>>
csvVars == <<sheetnames>>
columnVars == <<col_schedule, col_x0, col_starts, col_assigned>>
extractVars == <<ex_schedule, ex_pages, ex_idx, ex_carried, ex_rows, ex_trace, ex_pc, ex_out>>
docVars == <<dp_lines, dp_idx, dp_page, dp_schedule, dp_part, dp_results, dp_steps>>
vars == <<amount, bounds, schedule, segmented, consolidated,
          page_schedule, page_words, carried, header_info, page_result,
          entry, source, prior_outputs, pc, pdf_index, fs_ops, produced,
          az_call, az_pages, az_entries, pofd_tables, pofd_metadata, pofd_rows,
          xl_rows, xl_notes, xl_sheets, sheetnames,
          col_schedule, col_x0, col_starts, col_assigned,
          ex_schedule, ex_pages, ex_idx, ex_carried, ex_rows, ex_trace, ex_pc, ex_out,
          dp_lines, dp_idx, dp_page, dp_schedule, dp_part, dp_results, dp_steps>>

(***************************************************************************)
(* Python str methods used by the parsers.                                 *)
(***************************************************************************)
Char(s, i) == SubSeq(s, i, i)

\* `p in s`
Contains(s, p) ==
    \E i \in 1..(Len(s) - Len(p) + 1) : SubSeq(s, i, i + Len(p) - 1) = p

\* s.startswith(p)
StartsWith(s, p) == Len(p) <= Len(s) /\ SubSeq(s, 1, Len(p)) = p

\* s.endswith(p)
EndsWith(s, p) == Len(p) <= Len(s) /\ SubSeq(s, Len(s) - Len(p) + 1, Len(s)) = p

UpperLetters == "ABCDEFGHIJKLMNOPQRSTUVWXYZ"
LowerLetters == "abcdefghijklmnopqrstuvwxyz"

LowerChar(c) ==
    IF \E i \in 1..26 : Char(UpperLetters, i) = c
    THEN Char(LowerLetters, CHOOSE i \in 1..26 : Char(UpperLetters, i) = c)
    ELSE c

UpperChar(c) ==
    IF \E i \in 1..26 : Char(LowerLetters, i) = c
    THEN Char(UpperLetters, CHOOSE i \in 1..26 : Char(LowerLetters, i) = c)
    ELSE c

RECURSIVE Lower(_)
\* s.lower()
Lower(s) == IF s = "" THEN "" ELSE LowerChar(Char(s, 1)) \o Lower(Tail(s))

RECURSIVE Upper(_)
\* s.upper()
Upper(s) == IF s = "" THEN "" ELSE UpperChar(Char(s, 1)) \o Upper(Tail(s))

IsSpace(c) == c \in {" ", "\n", "\t"}
IsDigit(c) == c \in {"0", "1", "2", "3", "4", "5", "6", "7", "8", "9"}
IsAlpha(c) == \E i \in 1..26 : Char(UpperLetters, i) = c \/ Char(LowerLetters, i) = c

RECURSIVE LStrip(_)
LStrip(s) == IF s # "" /\ IsSpace(Char(s, 1)) THEN LStrip(Tail(s)) ELSE s

RECURSIVE RStrip(_)
RStrip(s) ==
    IF s # "" /\ IsSpace(Char(s, Len(s))) THEN RStrip(SubSeq(s, 1, Len(s) - 1)) ELSE s

\* s.strip()
Strip(s) == RStrip(LStrip(s))

RECURSIVE Replace(_, _, _)
\* s.replace(old, new), old non-empty: leftmost non-overlapping occurrences
Replace(s, old, new) ==
    IF Len(s) < Len(old) THEN s
    ELSE IF StartsWith(s, old)
         THEN new \o Replace(SubSeq(s, Len(old) + 1, Len(s)), old, new)
         ELSE Char(s, 1) \o Replace(Tail(s), old, new)

DigitVal(c) == CHOOSE d \in 0..9 : Char("0123456789", d + 1) = c

RECURSIVE ParseInt(_)
\* int(s) for a string of decimal digits
ParseInt(s) ==
    IF s = "" THEN 0
    ELSE 10 * ParseInt(SubSeq(s, 1, Len(s) - 1)) + DigitVal(Char(s, Len(s)))

None == <<>>
Some(v) == <<v>>

(***************************************************************************)
(* alaska_project/process_pofd_reports.py: parse_amount_bounds             *)
(***************************************************************************)
RECURSIVE NumberRunEnd(_, _)
\* the end of the run [0-9][0-9,]* that starts at position i of text
NumberRunEnd(text, i) ==
    IF i < Len(text) /\ (IsDigit(Char(text, i + 1)) \/ Char(text, i + 1) = ",")
    THEN NumberRunEnd(text, i + 1)
    ELSE i

RECURSIVE FindNumbersFrom(_, _)
FindNumbersFrom(text, i) ==
    IF i > Len(text) THEN <<>>
    ELSE IF IsDigit(Char(text, i))
         THEN LET e == NumberRunEnd(text, i)
              IN  <<ParseInt(Replace(SubSeq(text, i, e), ",", ""))>>
                      \o FindNumbersFrom(text, e + 1)
         ELSE FindNumbersFrom(text, i + 1)

\* [int(m.replace(",", "")) for m in AMOUNT_NUMBER_RE.findall(text)]: the optional
\* "$" and blanks before a run are not captured, so the captures are the maximal
\* runs of digits and commas that start with a digit, left to right
AmountNumbers(text) == FindNumbersFrom(text, 1)

HasRangeIndicator(text, lower_text) ==
    \/ Contains(text, "-")
    \/ Contains(lower_text, "between")
    \/ (Contains(lower_text, "from")
           /\ (Contains(lower_text, "to") \/ Contains(lower_text, "through")))

UpperPhrases ==
    {"not more than", "no more than", "or less", "less than or equal", "less than",
     "up to", "at most"}

LowerPhrases == {"more than", "at least", "greater than", "minimum"}

HasUpperIndicator(lower_text) == \E p \in UpperPhrases : Contains(lower_text, p)

HasLowerIndicator(sanitized_lower) == \E p \in LowerPhrases : Contains(sanitized_lower, p)

SanitizedLower(lower_text) ==
    Replace(Replace(lower_text, "not more than", ""), "no more than", "")

\* a plausible slip of line 128: the first number taken for the last
UpperMax_First(numbers) == Some(numbers[1])

\* line 128: max_val = numbers[-1]
UpperMax(numbers) == Some(numbers[Len(numbers)])

\* a plausible slip of line 133: the first number taken for the last
OrMoreMin_First(numbers) == Some(numbers[1])

\* line 133: min_val = numbers[-1]
OrMoreMin(numbers) == Some(numbers[Len(numbers)])

\* a plausible slip of lines 139-140: only the lower bound set
BareNumber_MinOnly(numbers) == [min |-> Some(numbers[1]), max |-> None]

\* lines 139-140: min_val = max_val = numbers[0]
BareNumber(numbers) == [min |-> Some(numbers[1]), max |-> Some(numbers[1])]

\* the four rules with the "or more" rule applied before the upper-bound rule
AmountRules_OrMoreFirst(text, numbers) ==
    LET lower_text == Lower(text)
        n          == Len(numbers)
        has_range  == HasRangeIndicator(text, lower_text)
        has_upper  == HasUpperIndicator(lower_text)
        has_lower  == HasLowerIndicator(SanitizedLower(lower_text))
        first      == Some(numbers[1])
        last       == Some(numbers[n])
        range_rule == has_range
                        \/ (n >= 2 /\ (Contains(lower_text, " and ") \/ has_upper \/ has_lower))
        min1 == IF range_rule THEN first ELSE None
        max1 == IF range_rule /\ n > 1 THEN last ELSE None
        or_more == Contains(lower_text, "or more")
        min2 == IF or_more THEN last
                ELSE IF has_lower /\ min1 = None THEN first ELSE min1
        max2 == IF or_more THEN None ELSE max1
        min3 == IF has_upper /\ n > 1 THEN first ELSE min2
        max3 == IF has_upper THEN last ELSE max2
        bare == n = 1 /\ min3 = None /\ max3 = None
    IN  IF bare THEN BareNumber(numbers) ELSE [min |-> min3, max |-> max3]

\* lines 119-142: the four rules, applied in the order of the code
AmountRules(text, numbers) ==
    LET lower_text == Lower(text)
        n          == Len(numbers)
        has_range  == HasRangeIndicator(text, lower_text)
        has_upper  == HasUpperIndicator(lower_text)
        has_lower  == HasLowerIndicator(SanitizedLower(lower_text))
        first      == Some(numbers[1])
        last       == Some(numbers[n])
        range_rule == has_range
                        \/ (n >= 2 /\ (Contains(lower_text, " and ") \/ has_upper \/ has_lower))
        min1 == IF range_rule THEN first ELSE None
        max1 == IF range_rule /\ n > 1 THEN last ELSE None
        min2 == IF has_upper /\ n > 1 THEN first ELSE min1
        max2 == IF has_upper THEN UpperMax(numbers) ELSE max1
        or_more == Contains(lower_text, "or more")
        min3 == IF or_more THEN OrMoreMin(numbers)
                ELSE IF has_lower /\ min2 = None THEN first ELSE min2
        max3 == IF or_more THEN None ELSE max2
        bare == n = 1 /\ min3 = None /\ max3 = None
    IN  IF bare THEN BareNumber(numbers) ELSE [min |-> min3, max |-> max3]

\* int(amount) of a number given in tenths: truncation toward zero
IntOfTenths(t) == IF t >= 0 THEN t \div 10 ELSE -((-t) \div 10)

parse_amount_bounds(a) ==
    IF a.kind = "none" THEN [min |-> None, max |-> None]
    ELSE IF a.kind = "number"
    THEN [min |-> Some(IntOfTenths(a.tenths)), max |-> Some(IntOfTenths(a.tenths))]
    ELSE LET text == Strip(a.text)
         IN  IF text = "" THEN [min |-> None, max |-> None]
             ELSE LET numbers == AmountNumbers(text)
                  IN  IF numbers = <<>> THEN [min |-> None, max |-> None]
                      ELSE AmountRules(text, numbers)

(***************************************************************************)
(* disclosure_parser/split_schedules.py: the row consolidators.  A row is  *)
(* a sequence of cell strings; `current` is <<>> for None, <<row>> for a   *)
(* row.                                                                    *)
(***************************************************************************)
RECURSIVE CollapseSpace(_)
\* re.sub(r"\s+", " ", text)
CollapseSpace(s) ==
    IF s = "" THEN ""
    ELSE IF IsSpace(Char(s, 1))
         THEN " " \o CollapseSpace(LStrip(s))
         ELSE Char(s, 1) \o CollapseSpace(Tail(s))

\* clean_cell for a str cell (the characters NUL and NBSP are outside the alphabet)
clean_cell(cell) == CollapseSpace(Strip(cell))

\* VALUE_TOKEN_PATTERN.search(text): of the four alternatives the two that begin with
\* "Less than"/"More than" contain a match of the third, "$" and one of [0-9,];
\* the fourth is "None"; the pattern ignores case
ValueTokenSearch(text) ==
    \/ \E i \in 1..(Len(text) - 1) :
           Char(text, i) = "$" /\ (IsDigit(Char(text, i + 1)) \/ Char(text, i + 1) = ",")
    \/ Contains(Lower(text), "none")

SCHEDULE_B_DESCRIPTION_PREFIXES ==
    {"d :", "d:", "c :", "c:", "l :", "l:", "location :", "location:", "description :",
     "description:", "details :", "details:", "issuer :", "issuer:"}

is_schedule_b_description_fragment(text) ==
    /\ text # ""
    /\ \E prefix \in SCHEDULE_B_DESCRIPTION_PREFIXES :
           StartsWith(Lower(clean_cell(text)), prefix)

\* re.search(r"[A-Za-z]{3,}", text)
HasAlphaRun3(text) ==
    \E i \in 1..(Len(text) - 2) :
        IsAlpha(Char(text, i)) /\ IsAlpha(Char(text, i + 1)) /\ IsAlpha(Char(text, i + 2))

\* SCHEDULE_B_ASSET_NOISE_PATTERN.match(text), ^[\s\W\d]+$: no letter and no "_"
AssetNoisePattern(text) ==
    text # "" /\ \A i \in 1..Len(text) : ~IsAlpha(Char(text, i)) /\ Char(text, i) # "_"

\* is_noise_schedule_b_row that takes no row for noise
is_noise_schedule_b_row_Never(row) == FALSE

is_noise_schedule_b_row(row) ==
    IF row = <<>> THEN FALSE
    ELSE LET asset_text == clean_cell(row[1])
         IN  IF asset_text = "" THEN FALSE
             ELSE \/ AssetNoisePattern(asset_text)
                  \/ ~\E i \in 1..Len(asset_text) : IsAlpha(Char(asset_text, i))
                  \/ ~HasAlphaRun3(asset_text)

\* list(raw_row[:n]) + ["" for _ in range(max(0, n - len(raw_row)))]
NormRow(raw_row, n) ==
    [c \in 1..n |-> IF c <= Len(raw_row) THEN raw_row[c] ELSE ""]

\* if cell: current[c] = existing + joiner + cell if existing else cell
JoinCell(existing, joiner, cell) ==
    IF cell = "" THEN existing
    ELSE IF existing = "" THEN cell
    ELSE existing \o joiner \o cell

\* the continuation row merged into current, column c joined with joiners[c];
\* a column whose joiner is "skip" is left as it is
MergeRow(cur, row, joiners) ==
    [c \in 1..Len(cur) |->
        IF joiners[c] = "skip" THEN cur[c] ELSE JoinCell(cur[c], joiners[c], row[c])]

\* a plausible slip of the flush: the finished record put in front of the others
FlushCurrent_Prepend(done, current) ==
    IF current # <<>> THEN <<current[1]>> \o done ELSE done

\* if current: consolidated.append(current)
FlushCurrent(done, current) ==
    IF current # <<>> THEN Append(done, current[1]) ELSE done

RECURSIVE ConsolidateALoop(_, _, _, _)
ConsolidateALoop(rows, i, current, done) ==
    IF i > Len(rows) THEN FlushCurrent(done, current)
    ELSE LET row == NormRow(rows[i], 6)
             value == row[3]
             has_value == value # ""
             looks_like_value ==
                 value # "" /\ (ValueTokenSearch(value) \/ Lower(value) = "none")
         IN  IF has_value /\ (looks_like_value \/ current = <<>>)
             THEN ConsolidateALoop(rows, i + 1, <<row>>, FlushCurrent(done, current))
             ELSE IF current = <<>>
             THEN ConsolidateALoop(rows, i + 1, current, done)
             ELSE ConsolidateALoop(rows, i + 1,
                      <<MergeRow(current[1], row, <<"\n", "\n", "skip", "\n", "\n", "\n">>)>>,
                      done)

consolidate_schedule_a(rows) ==
    IF rows = <<>> THEN rows ELSE ConsolidateALoop(rows, 1, <<>>, <<>>)

RECURSIVE ConsolidateBLoop(_, _, _, _)
ConsolidateBLoop(rows, i, current, done) ==
    IF i > Len(rows) THEN FlushCurrent(done, current)
    ELSE LET row == NormRow(rows[i], 6)
             owner == row[2]
             is_new == \/ (owner # "" /\ ~StartsWith(owner, "L:") /\ Len(owner) <= 4)
                       \/ row[3] # "" \/ row[4] # "" \/ row[5] # ""
             merged == IF current = <<>> THEN <<>>
                       ELSE <<MergeRow(current[1], row, <<"\n", "\n", " ", " ", " ", " ">>)>>
         IN  IF is_schedule_b_description_fragment(row[1])
             THEN ConsolidateBLoop(rows, i + 1, merged, done)
             ELSE IF is_new
             THEN ConsolidateBLoop(rows, i + 1, <<row>>, FlushCurrent(done, current))
             ELSE IF current = <<>>
             THEN ConsolidateBLoop(rows, i + 1, <<row>>, done)
             ELSE ConsolidateBLoop(rows, i + 1, merged, done)

consolidate_schedule_b(rows) ==
    IF rows = <<>> THEN rows
    ELSE SelectSeq(ConsolidateBLoop(rows, 1, <<>>, <<>>),
                   LAMBDA row : ~is_noise_schedule_b_row(row))

RECURSIVE ConsolidateDLoop(_, _, _, _)
ConsolidateDLoop(rows, i, current, done) ==
    IF i > Len(rows) THEN FlushCurrent(done, current)
    ELSE LET row == NormRow(rows[i], 5)
             amount_cell == row[5]
             has_key == row[1] # "" \/ row[2] # "" \/ row[3] # ""
             amount_new == amount_cell # ""
                 /\ (ValueTokenSearch(amount_cell) \/ Lower(amount_cell) = "none")
             is_new == has_key \/ (amount_new /\ has_key) \/ (amount_new /\ current = <<>>)
         IN  IF is_new \/ current = <<>>
             THEN ConsolidateDLoop(rows, i + 1, <<row>>, FlushCurrent(done, current))
             ELSE ConsolidateDLoop(rows, i + 1,
                      <<MergeRow(current[1], row, <<"\n", "\n", " ", "\n", " ">>)>>, done)

\* consolidate_schedule_d where a value token in the amount cell starts a record
\* whether or not a record is open
RECURSIVE ConsolidateDLoop_AmountStarts(_, _, _, _)
ConsolidateDLoop_AmountStarts(rows, i, current, done) ==
    IF i > Len(rows) THEN FlushCurrent(done, current)
    ELSE LET row == NormRow(rows[i], 5)
             amount_cell == row[5]
             has_key == row[1] # "" \/ row[2] # "" \/ row[3] # ""
             amount_new == amount_cell # ""
                 /\ (ValueTokenSearch(amount_cell) \/ Lower(amount_cell) = "none")
             is_new == has_key \/ amount_new
         IN  IF is_new \/ current = <<>>
             THEN ConsolidateDLoop_AmountStarts(rows, i + 1, <<row>>,
                      FlushCurrent(done, current))
             ELSE ConsolidateDLoop_AmountStarts(rows, i + 1,
                      <<MergeRow(current[1], row, <<"\n", "\n", " ", "\n", " ">>)>>, done)

consolidate_schedule_d_AmountStarts(rows) ==
    IF rows = <<>> THEN rows ELSE ConsolidateDLoop_AmountStarts(rows, 1, <<>>, <<>>)

consolidate_schedule_d(rows) ==
    IF rows = <<>> THEN rows ELSE ConsolidateDLoop(rows, 1, <<>>, <<>>)

RECURSIVE ConsolidateELoop(_, _, _, _)
ConsolidateELoop(rows, i, current, done) ==
    IF i > Len(rows) THEN FlushCurrent(done, current)
    ELSE LET row == NormRow(rows[i], 2)
             is_new == row[1] # "" \/ row[2] # ""
         IN  IF is_new \/ current = <<>>
             THEN ConsolidateELoop(rows, i + 1, <<row>>, FlushCurrent(done, current))
             ELSE ConsolidateELoop(rows, i + 1,
                      <<MergeRow(current[1], row, <<" ", " ">>)>>, done)

consolidate_schedule_e(rows) ==
    IF rows = <<>> THEN rows ELSE ConsolidateELoop(rows, 1, <<>>, <<>>)

RECURSIVE ConsolidateFLoop(_, _, _, _)
ConsolidateFLoop(rows, i, current, done) ==
    IF i > Len(rows) THEN FlushCurrent(done, current)
    ELSE LET row == NormRow(rows[i], 3)
             is_new == row[1] # "" \/ row[2] # "" \/ row[3] # ""
         IN  IF is_new \/ current = <<>>
             THEN ConsolidateFLoop(rows, i + 1, <<row>>, FlushCurrent(done, current))
             ELSE ConsolidateFLoop(rows, i + 1,
                      <<MergeRow(current[1], row, <<" ", "\n", " ">>)>>, done)

consolidate_schedule_f(rows) ==
    IF rows = <<>> THEN rows ELSE ConsolidateFLoop(rows, 1, <<>>, <<>>)

(***************************************************************************)
(* disclosure_parser/split_schedules.py: the header detectors.  A word is  *)
(* [text, x0, top]; a page is the sequence of its words.  A detector       *)
(* returns (top, column_starts), returns None, or raises ValueError (min() *)
(* of an empty sequence).                                                  *)
(***************************************************************************)
HEADER_TOLERANCE == 3

\* normalise_word_text (the character NUL is outside the alphabet)
normalise_word_text(text) == Strip(text)

WordLabel(w) == Lower(normalise_word_text(w.text))

Abs(v) == IF v < 0 THEN -v ELSE v

RECURSIVE InsertByTop(_, _)
InsertByTop(sorted, w) ==
    IF sorted = <<>> THEN <<w>>
    ELSE IF Head(sorted).top <= w.top
         THEN <<Head(sorted)>> \o InsertByTop(Tail(sorted), w)
         ELSE <<w>> \o sorted

RECURSIVE SortByTop(_)
\* sorted(words, key=lambda w: w["top"]): stable
SortByTop(words) ==
    IF words = <<>> THEN <<>>
    ELSE InsertByTop(SortByTop(SubSeq(words, 1, Len(words) - 1)), words[Len(words)])

RECURSIVE InsertByX0(_, _)
InsertByX0(sorted, w) ==
    IF sorted = <<>> THEN <<w>>
    ELSE IF Head(sorted).x0 <= w.x0
         THEN <<Head(sorted)>> \o InsertByX0(Tail(sorted), w)
         ELSE <<w>> \o sorted

RECURSIVE SortByX0(_)
\* sorted(words, key=lambda w: w["x0"]): stable
SortByX0(words) ==
    IF words = <<>> THEN <<>>
    ELSE InsertByX0(SortByX0(SubSeq(words, 1, Len(words) - 1)), words[Len(words)])

\* [w for w in words if abs(w["top"] - top) < HEADER_TOLERANCE]
HeaderLine(words, top) ==
    SelectSeq(words, LAMBDA w : Abs(w.top - top) < HEADER_TOLERANCE)

\* how a header word is compared with a column label in the detectors
LabelMatches(mode, label, w) ==
    CASE mode = "is" -> WordLabel(w) = label
      [] mode = "startswith" -> StartsWith(WordLabel(w), label)
      [] mode = "in" -> Contains(WordLabel(w), label)

\* any(abs(other["top"] - top) < HEADER_TOLERANCE and <other matches label> ...)
HasLabel(words, top, mode, label) ==
    \E i \in 1..Len(words) :
        Abs(words[i].top - top) < HEADER_TOLERANCE /\ LabelMatches(mode, label, words[i])

\* the x0 of the header words that match a label
LabelXs(header_words, mode, label) ==
    {header_words[i].x0 : i \in {j \in 1..Len(header_words) :
                                    LabelMatches(mode, label, header_words[j])}}

\* min(...) of a non-empty collection
Min(xs) == CHOOSE m \in xs : \A x \in xs : m <= x

HeaderFound(top, column_starts) ==
    [kind |-> "found", top |-> top, column_starts |-> column_starts]

HeaderNone == [kind |-> "none", top |-> 0, column_starts |-> <<>>]

\* ValueError: min() arg is an empty sequence
HeaderRaises == [kind |-> "raise", top |-> 0, column_starts |-> <<>>]

\* lines 499-503: the Income column starts at the second "income..." word, or 80
\* to the right of the first when there is one only
IncomeStart(income_words) ==
    IF Len(income_words) > 1 THEN income_words[2].x0 ELSE income_words[1].x0 + 80

\* lines 470-520, reached for the anchor line at `top` once "owner" is on it
ScheduleAHeaderAt(words, top) ==
    LET header_words == HeaderLine(words, top)
        income_words == SortByX0(SelectSeq(header_words,
                            LAMBDA w : LabelMatches("startswith", "income", w)))
        tx_candidates == LabelXs(header_words, "startswith", "tx")
    IN  IF LabelXs(header_words, "is", "value") = {} THEN HeaderRaises
        ELSE IF income_words = <<>> THEN HeaderNone
        ELSE IF tx_candidates = {} THEN HeaderNone
        ELSE HeaderFound(top,
                 <<Min(LabelXs(header_words, "is", "asset")),
                   Min(LabelXs(header_words, "is", "owner")),
                   Min(LabelXs(header_words, "is", "value")),
                   income_words[1].x0,
                   IncomeStart(income_words),
                   Min(tx_candidates)>>)

RECURSIVE FindScheduleAFrom(_, _)
FindScheduleAFrom(sorted, words) ==
    IF sorted = <<>> THEN HeaderNone
    ELSE IF WordLabel(Head(sorted)) = "asset"
              /\ HasLabel(words, Head(sorted).top, "is", "owner")
         THEN ScheduleAHeaderAt(words, Head(sorted).top)
         ELSE FindScheduleAFrom(Tail(sorted), words)

find_schedule_a_header(words) == FindScheduleAFrom(SortByTop(words), words)

\* lines 825-871
ScheduleBHeaderAt(words, top) ==
    LET header_words == HeaderLine(words, top)
        tx_words == LabelXs(header_words, "startswith", "tx")
        amount_words == LabelXs(header_words, "startswith", "amount")
        cap_words == LabelXs(header_words, "startswith", "cap")
    IN  IF tx_words = {} THEN HeaderNone
        ELSE IF amount_words = {} THEN HeaderNone
        ELSE IF cap_words = {} THEN HeaderNone
        ELSE HeaderFound(top,
                 <<Min(LabelXs(header_words, "is", "asset")),
                   Min(LabelXs(header_words, "is", "owner")),
                   Min(LabelXs(header_words, "is", "date")),
                   Min(tx_words), Min(amount_words), Min(cap_words)>>)

RECURSIVE FindScheduleBFrom(_, _)
FindScheduleBFrom(sorted, words) ==
    IF sorted = <<>> THEN HeaderNone
    ELSE IF WordLabel(Head(sorted)) = "asset"
              /\ HasLabel(words, Head(sorted).top, "is", "owner")
              /\ HasLabel(words, Head(sorted).top, "is", "date")
         THEN ScheduleBHeaderAt(words, Head(sorted).top)
         ELSE FindScheduleBFrom(Tail(sorted), words)

find_schedule_b_header(words) == FindScheduleBFrom(SortByTop(words), words)

\* lines 1158-1176
ScheduleCHeaderAt(words, top) ==
    LET header_words == HeaderLine(words, top)
    IN  HeaderFound(top,
            <<Min(LabelXs(header_words, "is", "source")),
              Min(LabelXs(header_words, "is", "type")),
              Min(LabelXs(header_words, "is", "amount"))>>)

RECURSIVE FindScheduleCFrom(_, _)
FindScheduleCFrom(sorted, words) ==
    IF sorted = <<>> THEN HeaderNone
    ELSE IF WordLabel(Head(sorted)) = "source"
              /\ HasLabel(words, Head(sorted).top, "is", "type")
              /\ HasLabel(words, Head(sorted).top, "is", "amount")
         THEN ScheduleCHeaderAt(words, Head(sorted).top)
         ELSE FindScheduleCFrom(Tail(sorted), words)

find_schedule_c_header(words) == FindScheduleCFrom(SortByTop(words), words)

\* lines 1290-1318
ScheduleDHeaderAt(words, top) ==
    LET header_words == HeaderLine(words, top)
        date_xs == LabelXs(header_words, "startswith", "date")
        type_xs == LabelXs(header_words, "is", "type")
    IN  IF date_xs = {} \/ type_xs = {} THEN HeaderRaises
        ELSE HeaderFound(top,
                 <<Min(LabelXs(header_words, "is", "owner")),
                   Min(LabelXs(header_words, "is", "creditor")),
                   Min(date_xs), Min(type_xs),
                   Min(LabelXs(header_words, "in", "amount"))>>)

RECURSIVE FindScheduleDFrom(_, _)
FindScheduleDFrom(sorted, words) ==
    IF sorted = <<>> THEN HeaderNone
    ELSE IF WordLabel(Head(sorted)) = "owner"
              /\ HasLabel(words, Head(sorted).top, "is", "creditor")
              /\ HasLabel(words, Head(sorted).top, "in", "amount")
         THEN ScheduleDHeaderAt(words, Head(sorted).top)
         ELSE FindScheduleDFrom(Tail(sorted), words)

find_schedule_d_header(words) == FindScheduleDFrom(SortByTop(words), words)

\* lines 1475-1490: the x0 of the "name"/"organization" words of the anchor line
OrgCandidates(words, top) ==
    LabelXs(HeaderLine(words, top), "is", "name")
        \cup LabelXs(HeaderLine(words, top), "is", "organization")

RECURSIVE FindScheduleEFrom(_, _)
FindScheduleEFrom(sorted, words) ==
    IF sorted = <<>> THEN HeaderNone
    ELSE IF WordLabel(Head(sorted)) = "position"
              /\ OrgCandidates(words, Head(sorted).top) # {}
         THEN HeaderFound(Head(sorted).top,
                  <<Min(LabelXs(HeaderLine(words, Head(sorted).top), "is", "position")),
                    Min(OrgCandidates(words, Head(sorted).top))>>)
         ELSE FindScheduleEFrom(Tail(sorted), words)

find_schedule_e_header(words) == FindScheduleEFrom(SortByTop(words), words)

\* lines 1628-1646
ScheduleFHeaderAt(words, top) ==
    LET header_words == HeaderLine(words, top)
    IN  HeaderFound(top,
            <<Min(LabelXs(header_words, "is", "date")),
              Min(LabelXs(header_words, "startswith", "parties")),
              Min(LabelXs(header_words, "in", "terms"))>>)

RECURSIVE FindScheduleFFrom(_, _)
FindScheduleFFrom(sorted, words) ==
    IF sorted = <<>> THEN HeaderNone
    ELSE IF WordLabel(Head(sorted)) = "date"
              /\ HasLabel(words, Head(sorted).top, "startswith", "parties")
              /\ HasLabel(words, Head(sorted).top, "in", "terms")
         THEN ScheduleFHeaderAt(words, Head(sorted).top)
         ELSE FindScheduleFFrom(Tail(sorted), words)

find_schedule_f_header(words) == FindScheduleFFrom(SortByTop(words), words)

(***************************************************************************)
(* disclosure_parser/split_schedules.py: the token classifiers used by the *)
(* Schedule A and B segmenters.  The dash characters U+2013 and U+2014 of  *)
(* the connector sets are outside the alphabet of the model.               *)
(***************************************************************************)
OWNER_CODES ==
    {"SP", "SELF", "JT", "DC", "CH", "SC", "SC/DC", "SC/CH", "SELF/SP",
     "SELF/CH", "SELF/SC", "SELF/DC", "FAM", "TRUST", "N/A", "U/A",
     "UGMA", "KIDS", "SPOUSE", "SELF/SPOUSE", "SON", "DAUGHTER", "CHILD",
     "SELFANDCHILD", "SELFANDSPOUSE", "SPOUSEANDCHILD", "SELF/SPOUSE/CHILD",
     "SELF&CHILD", "SELF&SPOUSE", "SELF/CHILD"}

OWNER_ALIASES ==
    {"Self", "Spouse", "Child", "Son", "Daughter", "Self/Spouse",
     "Self/Child", "Spouse/Child", "Self & Spouse", "Self & Child",
     "Self/Spouse/Child", "Trust", "Custodian", "Grandchild", "Dependent",
     "Guardian"}

INCOME_KEYWORDS ==
    {"tax", "defer", "dividend", "interest", "income", "gains", "royalties",
     "rent", "capital", "trust", "annu", "partnership", "salary", "loss"}

TX_TYPE_KEYWORDS ==
    {"purchase", "purchased", "sale", "sold", "sell", "buy", "bought",
     "acquisition", "dispose", "disposition", "exchange", "transfer",
     "gift", "exercise", "exercised", "redeem", "redemption",
     "contribution", "distribution", "withdrawal", "deposit", "vest",
     "vesting", "assignment", "conversion", "write", "option", "grant", "award"}

TX_TYPE_SHORT_TOKENS == {"p", "s", "e", "x", "g", "sp", "sd", "ex"}

SCHEDULE_B_HEADER_TOKENS ==
    {"type", "tx. type", "tx type", "amount", "cap. gains > $200?",
     "cap gains > $200?", "gains > $200?", "type gains > $200?"}

RANGE_CONNECTOR_TOKENS == {"-"}
RANGE_WORD_TOKENS == {"over", "under", "between"}
RANGE_PHRASE_PREFIXES == {"at least", "at most", "less than", "more than", "greater than"}
VALUE_NON_NUMERIC_KEYWORDS == {"none", "n/a", "unknown", "variable", "varies", "var."}
INCOME_AMOUNT_KEYWORDS == VALUE_NON_NUMERIC_KEYWORDS \cup {"not applicable"}

is_range_indicator(text) ==
    LET cleaned == Lower(Strip(text))
    IN  /\ cleaned # ""
        /\ \/ cleaned \in RANGE_CONNECTOR_TOKENS
           \/ cleaned \in RANGE_WORD_TOKENS
           \/ EndsWith(cleaned, "+")
           \/ \E token \in RANGE_WORD_TOKENS : StartsWith(cleaned, token \o " ")
           \/ \E prefix \in RANGE_PHRASE_PREFIXES : StartsWith(cleaned, prefix)

is_owner_token(text) ==
    LET normalized == Replace(Replace(Replace(Replace(text, "/", ""), "-", ""), "&", ""), " ", "")
    IN  \/ Upper(text) \in OWNER_CODES
        \/ Upper(normalized) \in OWNER_CODES
        \/ Strip(text) \in OWNER_ALIASES

is_value_token(text) ==
    LET cleaned == Strip(text)
        lowered == Lower(cleaned)
    IN  /\ text # ""
        /\ \/ Contains(cleaned, "$")
           \/ Contains(cleaned, "%")
           \/ \E i \in 1..Len(cleaned) : IsDigit(Char(cleaned, i))
           \/ lowered \in VALUE_NON_NUMERIC_KEYWORDS
           \/ Contains(lowered, "less than")
           \/ Contains(lowered, "more than")
           \/ Contains(lowered, "greater than")
           \/ is_range_indicator(cleaned)

is_income_type_token(text) ==
    \E key \in INCOME_KEYWORDS : Contains(Lower(text), key)

is_income_amount_token(text) ==
    /\ text # ""
    /\ \/ Lower(Strip(text)) \in INCOME_AMOUNT_KEYWORDS
       \/ is_value_token(text)

\* TRANSACTION_AMOUNT_PATTERN.search(cleaned): "$" followed by a digit or a comma
TransactionAmountSearch(cleaned) ==
    \E i \in 1..(Len(cleaned) - 1) :
        /\ Char(cleaned, i) = "$"
        /\ (IsDigit(Char(cleaned, i + 1)) \/ Char(cleaned, i + 1) = ",")

is_transaction_amount_token(text) ==
    LET cleaned == Strip(text)
        lowered == Lower(cleaned)
    IN  /\ cleaned # ""
        /\ \/ lowered \in VALUE_NON_NUMERIC_KEYWORDS
           \/ Contains(lowered, "less than")
           \/ Contains(lowered, "more than")
           \/ Contains(lowered, "greater than")
           \/ /\ \/ StartsWith(lowered, "over ")
                 \/ StartsWith(lowered, "under ")
                 \/ StartsWith(lowered, "approximately ")
                 \/ StartsWith(lowered, "approx ")
              /\ Contains(cleaned, "$")
           \/ (Contains(lowered, " between ") /\ Contains(cleaned, "$"))
           \/ cleaned = "-"
           \/ TransactionAmountSearch(cleaned)

is_tx_type_token(text) ==
    LET lowered == Lower(Strip(text))
    IN  /\ text # ""
        /\ \/ lowered \in TX_TYPE_SHORT_TOKENS
           \/ \E keyword \in TX_TYPE_KEYWORDS : Contains(lowered, keyword)

RECURSIVE StripChars(_, _)
\* s.strip(chars)
StripChars(s, chars) ==
    IF s # "" /\ Char(s, 1) \in chars THEN StripChars(Tail(s), chars)
    ELSE IF s # "" /\ Char(s, Len(s)) \in chars
         THEN StripChars(SubSeq(s, 1, Len(s) - 1), chars)
         ELSE s

\* \d{lo,hi} matching the whole of s
DigitRun(s, lo, hi) ==
    /\ Len(s) \in lo..hi
    /\ \A i \in 1..Len(s) : IsDigit(Char(s, i))

\* fullmatch of three digit runs joined by sep, of the given length ranges
DateFullMatch(s, sep, r1, r2, r3) ==
    \E i \in 2..(Len(s) - 2) : \E j \in (i + 2)..(Len(s) - 1) :
        /\ Char(s, i) = sep
        /\ Char(s, j) = sep
        /\ DigitRun(SubSeq(s, 1, i - 1), r1[1], r1[2])
        /\ DigitRun(SubSeq(s, i + 1, j - 1), r2[1], r2[2])
        /\ DigitRun(SubSeq(s, j + 1, Len(s)), r3[1], r3[2])

is_date_token(text) ==
    LET cleaned == StripChars(Strip(text), {",", ".", ";"})
    IN  /\ cleaned # ""
        /\ \/ DateFullMatch(cleaned, "/", <<1, 2>>, <<1, 2>>, <<2, 4>>)
           \/ DateFullMatch(cleaned, "-", <<4, 4>>, <<1, 2>>, <<1, 2>>)


(***************************************************************************)
(* az_report_parser.py: the regular expressions and line helpers.          *)
(***************************************************************************)

\* the index of the leftmost occurrence of p in s, 0 when there is none
Find(s, p) ==
    IF Contains(s, p)
    THEN CHOOSE i \in 1..(Len(s) - Len(p) + 1) :
            /\ SubSeq(s, i, i + Len(p) - 1) = p
            /\ \A j \in 1..(i - 1) : SubSeq(s, j, j + Len(p) - 1) # p
    ELSE 0

\* s.split(p, 1)[0]
Before(s, p) == IF Contains(s, p) THEN SubSeq(s, 1, Find(s, p) - 1) ELSE s

\* s.split(p, 1)[1], for p in s
After(s, p) == SubSeq(s, Find(s, p) + Len(p), Len(s))

\* s.count(c) for a single character
Count(s, c) == Cardinality({i \in 1..Len(s) : Char(s, i) = c})

\* the end of the longest run of characters of chars that starts at i
RunEnd(s, i, chars) ==
    CHOOSE e \in (i - 1)..Len(s) :
        /\ \A k \in i..e : Char(s, k) \in chars
        /\ e = Len(s) \/ Char(s, e + 1) \notin chars

DigitChars == {"0", "1", "2", "3", "4", "5", "6", "7", "8", "9"}

\* [\(\)\d,\.]
AmountChars == DigitChars \cup {"(", ")", ",", "."}

\* \d{2}/\d{2}/\d{4} at position i
DateAt(s, i) ==
    /\ i + 9 <= Len(s)
    /\ \A k \in {0, 1, 3, 4, 6, 7, 8, 9} : IsDigit(Char(s, i + k))
    /\ Char(s, i + 2) = "/"
    /\ Char(s, i + 5) = "/"

\* where "$" followed by an amount character stands after the date at i
DollarAfter(s, i) ==
    {j \in (i + 10)..(Len(s) - 1) : Char(s, j) = "$" /\ Char(s, j + 1) \in AmountChars}

SetMin(S) == CHOOSE x \in S : \A y \in S : x <= y

\* _DATE_AMOUNT_RE.search(line): None, or the groups date and amount
DateAmountSearch(line) ==
    LET starts == {i \in 1..Len(line) : DateAt(line, i) /\ DollarAfter(line, i) # {}}
    IN  IF starts = {} THEN None
        ELSE LET i == SetMin(starts)
                 j == SetMin(DollarAfter(line, i))
             IN  Some([date |-> SubSeq(line, i, i + 9),
                       amount |-> SubSeq(line, j + 1, RunEnd(line, j + 1, AmountChars))])

\* _DATE_NAME_LINE_RE.match(line)
DateNameLineMatch(line) ==
    /\ DateAt(line, 1)
    /\ LET a == RunEnd(line, 11, {" ", "\t"}) + 1
       IN  /\ a > 11
           /\ a <= Len(line)
           /\ Char(line, a) = "$"
           /\ LET e == RunEnd(line, a + 1, AmountChars)
                  b == RunEnd(line, e + 1, {" ", "\t"}) + 1
              IN  /\ e > a
                  /\ b > e + 1
                  /\ StartsWith(SubSeq(line, b, Len(line)), "Name:")

IsWordChar(c) == IsAlpha(c) \/ IsDigit(c) \/ c = "_"

IsUpperChar(c) == \E i \in 1..26 : Char(UpperLetters, i) = c

\* \b between positions i and i + 1 of s
WordBoundary(s, i) ==
    (i >= 1 /\ i <= Len(s) /\ IsWordChar(Char(s, i)))
        # (i + 1 >= 1 /\ i + 1 <= Len(s) /\ IsWordChar(Char(s, i + 1)))

\* the end of the zip that _STATE_ZIP_RE matches after the state at i, 0 when none
ZipEnd(s, i) ==
    IF i + 2 > Len(s) THEN 0
    ELSE
    LET a == RunEnd(s, i + 2, {" ", "\t"}) + 1
        e == RunEnd(s, a, DigitChars)
    IN  IF a = i + 2 \/ e - a + 1 < 3 \/ e - a + 1 > 5 THEN 0
        ELSE IF /\ e + 5 <= Len(s)
                /\ Char(s, e + 1) = "-"
                /\ \A k \in 2..5 : IsDigit(Char(s, e + k))
                /\ WordBoundary(s, e + 5)
             THEN e + 5
             ELSE IF WordBoundary(s, e) THEN e ELSE 0

\* _STATE_ZIP_RE.search(line): None, or the groups (state, zip)
StateZipSearch(line) ==
    LET starts == {i \in 1..(Len(line) - 1) :
                      /\ IsUpperChar(Char(line, i))
                      /\ IsUpperChar(Char(line, i + 1))
                      /\ WordBoundary(line, i - 1)
                      /\ ZipEnd(line, i) # 0}
    IN  IF starts = {} THEN None
        ELSE LET i == SetMin(starts)
                 a == RunEnd(line, i + 2, {" ", "\t"}) + 1
             IN  Some(<<SubSeq(line, i, i + 1), SubSeq(line, a, ZipEnd(line, i))>>)

RECURSIVE ZFill(_, _)
\* s.zfill(width) for a string of digits
ZFill(s, width) == IF Len(s) >= width THEN s ELSE ZFill("0" \o s, width)

_SCHEDULE_MARKERS ==
    <<"Schedule C2 - Individual contributions",
      "Schedule In-State Contributions of $100 or Less",
      "Schedule E1 - Operating expenses",
      "Schedule E4 - Aggregate Small Expenses",
      "Schedule R1 - Other receipts, interest & dividends">>

\* " ".join(line.strip().split()); NBSP is outside the alphabet
_clean_line(line) == CollapseSpace(Strip(line))

_is_header_line(line) ==
    \/ \E prefix \in {"Quarter ", "Covers ", "Jurisdiction:", "Schedule "} :
          StartsWith(line, prefix)
    \/ Contains(line, "Filed on")
    \/ /\ RunEnd(line, 1, DigitChars) >= 3
       /\ RunEnd(line, 1, DigitChars) < Len(line)
       /\ IsSpace(Char(line, RunEnd(line, 1, DigitChars) + 1))
       /\ ~Contains(line, ",")
    \/ StartsWith(line, "100") /\ Contains(line, "for Arizona")
    \/ Contains(line, "Secretary of State")
    \/ Contains(line, "Cycle To Date")

_is_name_line(line) ==
    /\ ~Contains(line, ":")
    /\ Count(line, ",") = 1
    /\ \A i \in 1..Len(line) : ~IsDigit(Char(line, i))

\* Decimal(text) for text over digits, ".", "+" and "-": None when it raises
\* InvalidOperation, else the sign and the unsigned literal
DecimalOf(text) ==
    LET signed == text # "" /\ Char(text, 1) \in {"+", "-"}
        body == IF signed THEN Tail(text) ELSE text
    IN  IF /\ \A i \in 1..Len(body) : Char(body, i) \in DigitChars \cup {"."}
           /\ Count(body, ".") <= 1
           /\ \E i \in 1..Len(body) : IsDigit(Char(body, i))
        THEN Some([negative |-> signed /\ Char(text, 1) = "-", literal |-> body])
        ELSE None

\* -number
Negate(number) == [number EXCEPT !.negative = ~number.negative]

\* number < 0
IsNegative(number) ==
    number.negative /\ \E i \in 1..Len(number.literal) :
        IsDigit(Char(number.literal, i)) /\ Char(number.literal, i) # "0"

_parse_decimal(value) ==
    LET cleaned == Replace(Replace(Strip(value), "$", ""), ",", "")
        parens == StartsWith(cleaned, "(") /\ EndsWith(cleaned, ")")
        negative == parens \/ StartsWith(cleaned, "-")
        inner == IF parens THEN SubSeq(cleaned, 2, Len(cleaned) - 1)
                 ELSE IF negative THEN Tail(cleaned)
                 ELSE cleaned
    IN  IF cleaned = "" THEN None
        ELSE IF DecimalOf(inner) = None THEN None
        ELSE IF negative THEN Some(Negate(DecimalOf(inner)[1]))
        ELSE DecimalOf(inner)

\* part.strip() or None
StripOrNone(part) == IF Strip(part) = "" THEN None ELSE Some(Strip(part))

_split_name(value) ==
    IF Contains(value, ",")
    THEN <<StripOrNone(Before(value, ",")), StripOrNone(After(value, ","))>>
    ELSE <<StripOrNone(value), None>>

_split_occupation_employer(value) ==
    IF value = "" THEN <<None, None>>
    ELSE IF Contains(value, ",")
    THEN <<StripOrNone(Before(value, ",")), StripOrNone(After(value, ","))>>
    ELSE <<StripOrNone(value), None>>

_extract_label_value(line, label) ==
    IF ~Contains(line, label) THEN None
    ELSE LET before == Strip(Before(line, label))
             after == Strip(After(line, label))
         IN  IF before = "" /\ after = "" THEN None
             ELSE IF before = "" THEN Some(after)
             ELSE IF after = "" THEN Some(before)
             ELSE Some(Strip(before \o " " \o after))

_looks_like_vendor_line(line) ==
    /\ line # ""
    /\ ~Contains(line, ":")
    /\ ~StartsWith(line, "$")
    /\ ~DateNameLineMatch(line)

RECURSIVE JoinWith(_, _)
\* sep.join(parts)
JoinWith(parts, sep) ==
    IF parts = <<>> THEN ""
    ELSE IF Len(parts) = 1 THEN parts[1]
    ELSE parts[1] \o sep \o JoinWith(Tail(parts), sep)

(***************************************************************************)
(* AZReportParser: collecting a schedule's lines and building its entries. *)
(***************************************************************************)

\* any(other != schedule_marker and other in line for other in _SCHEDULE_MARKERS)
OtherMarkerIn(line, schedule_marker) ==
    \E k \in 1..Len(_SCHEDULE_MARKERS) :
        _SCHEDULE_MARKERS[k] # schedule_marker /\ Contains(line, _SCHEDULE_MARKERS[k])

RECURSIVE ScanPage(_, _, _)
\* the inner loop of _collect_schedule_lines over one page's lines
ScanPage(page_lines, schedule_marker, lines) ==
    IF page_lines = <<>> THEN [lines |-> lines, in_section |-> TRUE]
    ELSE LET line == Head(page_lines)
         IN  IF line = "" THEN ScanPage(Tail(page_lines), schedule_marker, lines)
             ELSE IF OtherMarkerIn(line, schedule_marker)
                  THEN [lines |-> lines, in_section |-> FALSE]
             ELSE IF _is_header_line(line)
                  THEN ScanPage(Tail(page_lines), schedule_marker, lines)
             ELSE ScanPage(Tail(page_lines), schedule_marker, Append(lines, line))

RECURSIVE CollectPages(_, _, _, _)
\* the loop of _collect_schedule_lines over the pages
CollectPages(pages, schedule_marker, lines, in_section) ==
    IF pages = <<>> THEN lines
    ELSE LET page_lines == [i \in 1..Len(Head(pages)) |-> _clean_line(Head(pages)[i])]
             entered == in_section
                 \/ \E i \in 1..Len(page_lines) : Contains(page_lines[i], schedule_marker)
             scan == ScanPage(page_lines, schedule_marker, lines)
         IN  IF ~entered THEN CollectPages(Tail(pages), schedule_marker, lines, FALSE)
             ELSE IF ~scan.in_section /\ scan.lines # <<>> THEN scan.lines
             ELSE CollectPages(Tail(pages), schedule_marker, scan.lines, scan.in_section)

NotFiledOn(line) == line # "" /\ ~Contains(line, "Filed on")

_collect_schedule_lines(pages, schedule_marker) ==
    SelectSeq(CollectPages(pages, schedule_marker, <<>>, FALSE), NotFiledOn)

\* the first index of lines where _DATE_AMOUNT_RE matches, 0 when there is none
DateIndex(lines) ==
    LET hits == {i \in 1..Len(lines) : DateAmountSearch(lines[i]) # None}
    IN  IF hits = {} THEN 0 ELSE SetMin(hits)

\* the zero padding of the zip code in _build_entry
PadZip(zip_code) ==
    IF Contains(zip_code, "-")
    THEN IF Len(Before(zip_code, "-")) < 5
         THEN ZFill(Before(zip_code, "-"), 5) \o "-" \o After(zip_code, "-")
         ELSE zip_code
    ELSE IF Len(zip_code) < 5 THEN ZFill(zip_code, 5) ELSE zip_code

NoDetails ==
    [total_to_date |-> None, occupation |-> None, employer |-> None,
     transaction_type |-> None, original_date |-> None]

RECURSIVE EntryDetails(_, _)
\* the loop of _build_entry over the lines after the date line
EntryDetails(lines, st) ==
    IF lines = <<>> THEN st
    ELSE LET line == Head(lines)
             next ==
                 IF StartsWith(line, "$") /\ ~Contains(line, "Original")
                 THEN IF st.total_to_date = None
                      THEN [st EXCEPT !.total_to_date = _parse_decimal(line)]
                      ELSE st
                 ELSE IF Contains(line, "Occupation:")
                 THEN [st EXCEPT
                         !.occupation =
                             _split_occupation_employer(Strip(Before(line, "Occupation:")))[1],
                         !.employer =
                             _split_occupation_employer(Strip(Before(line, "Occupation:")))[2]]
                 ELSE IF Contains(line, "Trans. Type:")
                 THEN [st EXCEPT !.transaction_type = Some(Strip(Before(line, "Trans. Type:")))]
                 ELSE IF Contains(line, "Original Date:")
                 THEN [st EXCEPT !.original_date = StripOrNone(After(line, "Original Date:"))]
                 ELSE st
         IN  EntryDetails(Tail(lines), next)

\* transaction_display of _build_entry
TransactionDisplay(st, amount_value) ==
    LET typed == st.transaction_type # None /\ st.transaction_type[1] # ""
    IN  IF typed /\ st.original_date # None
        THEN st.transaction_type[1] \o " " \o st.original_date[1]
        ELSE IF typed THEN st.transaction_type[1]
        ELSE IF amount_value # None /\ IsNegative(amount_value[1])
        THEN "Refunded Contribution"
        ELSE "Contribution"

\* None, or the AZContributionEntry of one block of lines
_build_entry(lines) ==
    IF lines = <<>> \/ DateIndex(lines) = 0 THEN None
    ELSE LET date_index == DateIndex(lines)
             address_lines == SubSeq(lines, 2, date_index - 1)
             state_zip_match ==
                 IF address_lines = <<>> THEN None
                 ELSE StateZipSearch(address_lines[Len(address_lines)])
             date_match == DateAmountSearch(lines[date_index])[1]
             amount_value == _parse_decimal(date_match.amount)
             st == EntryDetails(SubSeq(lines, date_index + 1, Len(lines)), NoDetails)
         IN  Some([last_name |-> _split_name(lines[1])[1],
                   first_name |-> _split_name(lines[1])[2],
                   address_line1 |->
                       IF address_lines = <<>> THEN None
                       ELSE Some(Strip(Before(address_lines[1], ","))),
                   state |->
                       IF state_zip_match = None THEN None ELSE Some(state_zip_match[1][1]),
                   zip_code |->
                       IF state_zip_match = None THEN None
                       ELSE Some(PadZip(state_zip_match[1][2])),
                   occupation |-> st.occupation,
                   employer |-> st.employer,
                   address_full |->
                       IF address_lines = <<>> THEN None
                       ELSE Some(JoinWith(address_lines, ", ")),
                   date |-> date_match.date,
                   amount |-> amount_value,
                   transaction_type |-> TransactionDisplay(st, amount_value),
                   total_to_date |-> st.total_to_date,
                   raw_text |-> JoinWith(lines, "\n")])

\* if entry is not None: entries.append(entry); here every earlier entry is lost
AppendEntry_Reset(entries, built) ==
    IF built = None THEN <<>> ELSE Append(entries, built[1])

\* if entry is not None: entries.append(entry)
AppendEntry(entries, built) ==
    IF built = None THEN entries ELSE Append(entries, built[1])

ContributionBoundaries == {"Total of", "Net Total", "Total Small", "Total of Aggregate"}

RECURSIVE ContributionsLoop(_, _, _)
\* the loop of parse_contributions and the flush after it
ContributionsLoop(lines, current, entries) ==
    IF lines = <<>> \/ \E boundary \in ContributionBoundaries : StartsWith(Head(lines), boundary)
    THEN IF current # <<>> THEN AppendEntry(entries, _build_entry(current)) ELSE entries
    ELSE IF _is_name_line(Head(lines)) /\ current # <<>>
         THEN ContributionsLoop(Tail(lines), <<Head(lines)>>,
                                AppendEntry(entries, _build_entry(current)))
         ELSE ContributionsLoop(Tail(lines), Append(current, Head(lines)), entries)

parse_contributions(pages) ==
    ContributionsLoop(_collect_schedule_lines(pages, _SCHEDULE_MARKERS[1]), <<>>, <<>>)

DetailLabels == {"Memo", "Category", "Address", "Trans. Type"}

RECURSIVE AddressEnd(_, _)
\* where the address loop of _split_vendor_entries stops
AddressEnd(lines, idx) ==
    IF idx > Len(lines) \/ DateNameLineMatch(lines[idx]) THEN idx
    ELSE IF StartsWith(lines[idx], "Total") THEN idx
    ELSE IF Contains(lines[idx], ":") /\ Before(lines[idx], ":") \in DetailLabels THEN idx
    ELSE AddressEnd(lines, idx + 1)

RECURSIVE LookaheadEnd(_, _)
\* where the lookahead loop of _split_vendor_entries stops
LookaheadEnd(lines, lookahead) ==
    IF lookahead > Len(lines) \/ DateNameLineMatch(lines[lookahead]) THEN lookahead
    ELSE IF StartsWith(lines[lookahead], "Total") \/ Contains(lines[lookahead], ":")
         THEN lookahead
    ELSE LookaheadEnd(lines, lookahead + 1)

\* the line at idx opens the next vendor: a date line follows its address
StartsNextVendor(lines, idx) ==
    /\ _looks_like_vendor_line(lines[idx])
    /\ LookaheadEnd(lines, idx + 1) <= Len(lines)
    /\ DateNameLineMatch(lines[LookaheadEnd(lines, idx + 1)])

RECURSIVE DetailEnd(_, _)
\* where the detail loop of _split_vendor_entries stops
DetailEnd(lines, idx) ==
    IF idx > Len(lines) THEN idx
    ELSE IF StartsWith(lines[idx], "Total") \/ StartsNextVendor(lines, idx) THEN idx
    ELSE DetailEnd(lines, idx + 1)

RECURSIVE SplitVendorFrom(_, _, _)
\* the outer loop of _split_vendor_entries
SplitVendorFrom(lines, idx, entries) ==
    IF idx > Len(lines) \/ StartsWith(lines[idx], "Total") THEN entries
    ELSE LET date_at == AddressEnd(lines, idx + 1)
             detail_end == DetailEnd(lines, date_at + 1)
             found == [name |-> lines[idx],
                       address_lines |-> SubSeq(lines, idx + 1, date_at - 1),
                       date_line |-> lines[date_at],
                       detail_lines |-> SubSeq(lines, date_at + 1, detail_end - 1)]
         IN  IF date_at > Len(lines) \/ ~DateNameLineMatch(lines[date_at]) THEN entries
             ELSE IF detail_end <= Len(lines) /\ StartsWith(lines[detail_end], "Total")
                  THEN Append(entries, found)
                  ELSE SplitVendorFrom(lines, detail_end, Append(entries, found))

_split_vendor_entries(lines) == SplitVendorFrom(lines, 1, <<>>)

NoVendorDetails ==
    [payment_method |-> None, cycle_to_date |-> None, category |-> None,
     transaction_type |-> None, memo |-> None, extra |-> <<>>]

\* the first label of labels, in order, that _extract_label_value finds in detail
FirstLabel(detail, labels) ==
    LET hits == {k \in 1..Len(labels) : _extract_label_value(detail, labels[k]) # None}
    IN  IF hits = {} THEN 0 ELSE SetMin(hits)

ExpenseLabels ==
    <<"Address:", "Category:", "Trans. Type:", "Memo:", "Occupation:", "Description:">>

ReceiptLabels == <<"Address:", "Trans. Type:", "Memo:", "Category:", "Description:">>

\* the labels whose value the builder keeps in a field of its own
StoredLabels(labels) ==
    IF labels = ExpenseLabels
    THEN {"Address:", "Category:", "Trans. Type:", "Memo:"}
    ELSE {"Address:", "Trans. Type:", "Memo:"}

\* one pass of the detail loop: the detail line stored under its label k of
\* labels, value what _extract_label_value returns for that label
VendorDetailStored(st, detail, labels, k, value) ==
    IF StartsWith(detail, "$")
    THEN IF st.cycle_to_date = None
         THEN [st EXCEPT !.cycle_to_date = _parse_decimal(detail)]
         ELSE [st EXCEPT !.extra = Append(@, detail)]
    ELSE IF k = 0 THEN [st EXCEPT !.extra = Append(@, detail)]
    ELSE IF labels[k] \notin StoredLabels(labels)
         THEN [st EXCEPT !.extra = Append(@, labels[k] \o " " \o value[1])]
    ELSE IF labels[k] = "Address:" THEN [st EXCEPT !.payment_method = value]
    ELSE IF labels[k] = "Category:" THEN [st EXCEPT !.category = value]
    ELSE IF labels[k] = "Trans. Type:" THEN [st EXCEPT !.transaction_type = value]
    ELSE [st EXCEPT !.memo = value]

VendorDetailStep(st, detail, labels, k) ==
    VendorDetailStored(st, detail, labels, k,
                       IF k = 0 THEN None ELSE _extract_label_value(detail, labels[k]))

RECURSIVE VendorDetails(_, _, _)
\* the detail loops of _build_operating_expense_entry and _build_other_receipt_entry;
\* labels lists the labels in the order tried
VendorDetails(detail_lines, labels, st) ==
    IF detail_lines = <<>> THEN st
    ELSE VendorDetails(Tail(detail_lines), labels,
                       VendorDetailStep(st, Head(detail_lines), labels,
                                        FirstLabel(Head(detail_lines), labels)))

NonEmpty(line) == line # ""

\* the record both vendor builders return: match the groups of the date line, st
\* the fields the detail loop found
VendorRecord(found, match, st) ==
    Some([name |-> found.name,
          address_lines |-> SelectSeq(found.address_lines, NonEmpty),
          date |-> match.date,
          amount |-> _parse_decimal(match.amount),
          payment_method |-> st.payment_method,
          cycle_to_date |-> st.cycle_to_date,
          category |-> st.category,
          transaction_type |-> st.transaction_type,
          memo |-> st.memo,
          extra |-> st.extra,
          raw_text |->
              JoinWith(SelectSeq(<<found.name>> \o found.address_lines
                                     \o <<found.date_line>> \o found.detail_lines,
                                 NonEmpty), "\n")])

\* the entry both vendor builders return for one tuple of _split_vendor_entries
VendorEntry(found, labels) ==
    IF DateAmountSearch(found.date_line) = None THEN None
    ELSE VendorRecord(found, DateAmountSearch(found.date_line)[1],
                      VendorDetails(found.detail_lines, labels, NoVendorDetails))

_build_operating_expense_entry(found) == VendorEntry(found, ExpenseLabels)

_build_other_receipt_entry(found) == VendorEntry(found, ReceiptLabels)

RECURSIVE VendorEntries(_, _)
\* for ... in self._split_vendor_entries(lines): if entry: entries.append(entry)
VendorEntries(split, labels) ==
    IF split = <<>> THEN <<>>
    ELSE LET built == VendorEntry(Head(split), labels)
         IN  (IF built = None THEN <<>> ELSE built) \o VendorEntries(Tail(split), labels)

parse_operating_expenses(pages) ==
    VendorEntries(_split_vendor_entries(_collect_schedule_lines(pages, _SCHEDULE_MARKERS[3])),
                  ExpenseLabels)

parse_other_receipts(pages) ==
    VendorEntries(_split_vendor_entries(_collect_schedule_lines(pages, _SCHEDULE_MARKERS[5])),
                  ReceiptLabels)

(***************************************************************************)
(* alaska_project/process_pofd_reports.py: gather_schedule_rows.  A table  *)
(* is a sequence of rows, a row a sequence of cells, a cell None or a str. *)
(***************************************************************************)
SCHEDULE_HEADER_MAP ==
    <<[header |-> <<"Owner", "Type", "Detail", "Description", "Amount">>,
       name |-> "Income"],
      [header |-> <<"Owner", "Type", "Detail", "Description / Interest">>,
       name |-> "Interests"],
      [header |-> <<"Owner", "Type", "Name">>, name |-> "LoansAndDebts"],
      [header |-> <<"Owner", "Type of Lease", "Lease/Contract ID", "Interest", "Status",
                    "Description">>,
       name |-> "Leases"],
      [header |-> <<"Associated Person", "Description">>,
       name |-> "CloseEconomicAssociations"],
      [header |-> <<"Name", "Address", "Compensation">>,
       name |-> "LobbyistPartnerEmployers"]>>

POFD_SCHEDULE_ORDER ==
    <<"Income", "Interests", "LoansAndDebts", "Leases", "CloseEconomicAssociations",
      "LobbyistPartnerEmployers">>

SCHEDULE_METADATA_COLUMNS ==
    <<"Source File", "Report Year", "Report Type", "Submission Date", "Report Dates",
      "Filing As">>

\* clean_cell of process_pofd_reports.py
pofd_clean_cell(value) == IF value = None THEN "" ELSE CollapseSpace(Strip(value[1]))

normalised_header(row) == [i \in 1..Len(row) |-> pofd_clean_cell(row[i])]

\* flatten_values for a sequence of str
flatten_values(values) ==
    Lower(JoinWith(SelectSeq([i \in 1..Len(values) |-> pofd_clean_cell(Some(values[i]))],
                             NonEmpty), " "))

\* any(cells) for a sequence of str
AnyText(cells) == \E i \in 1..Len(cells) : cells[i] # ""

\* the (detail, amount) pairs of extract_rental_appendix_rows
RECURSIVE CleanedPairs(_)
CleanedPairs(table) ==
    IF table = <<>> THEN <<>>
    ELSE LET row == Head(table)
             detail == IF Len(row) > 0 THEN pofd_clean_cell(row[1]) ELSE ""
             amount_text == IF Len(row) > 1 THEN pofd_clean_cell(row[2]) ELSE ""
         IN  (IF row = <<>> \/ (detail = "" /\ amount_text = "") THEN <<>>
              ELSE << <<detail, amount_text>> >>) \o CleanedPairs(Tail(table))

IsRentalRow(pair) ==
    /\ Contains(Lower(pair[1]), "total (usd)")
    /\ Contains(Lower(pair[2]), "more than $") \/ Contains(Lower(pair[2]), "not more than $")

IsRentalDetail(pair) ==
    /\ pair[1] # ""
    /\ pair[2] # ""
    /\ Lower(pair[1]) # "rental income"
    /\ ~StartsWith(Lower(pair[1]), "date range")

\* the rows of a supplemental rental table, <<>> when the table is none (None)
extract_rental_appendix_rows(table) ==
    LET cleaned_pairs == CleanedPairs(table)
        has_marker == \E i \in 1..Len(cleaned_pairs) :
                          Contains(Lower(cleaned_pairs[i][1]), "rental income")
        kept == SelectSeq(cleaned_pairs, IsRentalDetail)
    IN  IF cleaned_pairs = <<>> THEN <<>>
        ELSE IF ~has_marker /\ Len(SelectSeq(cleaned_pairs, IsRentalRow)) < 3 THEN <<>>
        ELSE [i \in 1..Len(kept) |->
                 [Owner |-> "Filer", Type |-> "Rental", Detail |-> kept[i][1],
                  Description |-> "", Amount |-> kept[i][2]]]

get_default_header(schedule_name) ==
    LET hits == {k \in 1..Len(SCHEDULE_HEADER_MAP) :
                    SCHEDULE_HEADER_MAP[k].name = schedule_name}
    IN  SCHEDULE_HEADER_MAP[SetMin(hits)].header

\* the first entry of SCHEDULE_HEADER_MAP that fits the header: one with this
\* very tuple, else the first with the same flattened text; 0 when there is none
HeaderMapIndex(header_tuple) ==
    LET exact == {k \in 1..Len(SCHEDULE_HEADER_MAP) :
                     SCHEDULE_HEADER_MAP[k].header = header_tuple}
        flat == {k \in 1..Len(SCHEDULE_HEADER_MAP) :
                    flatten_values(SCHEDULE_HEADER_MAP[k].header)
                        = flatten_values(header_tuple)}
    IN  IF exact # {} THEN SetMin(exact)
        ELSE IF flat # {} THEN SetMin(flat)
        ELSE 0

\* len([cell for cell in row if cell is not None]) for the non-empty rows
RowLengths(table) ==
    {Cardinality({i \in 1..Len(table[r]) : table[r][i] # None}) :
        r \in {q \in 1..Len(table) : table[q] # <<>>}}

SetMax(S) == CHOOSE x \in S : \A y \in S : x >= y

\* metadata.get(col, "")
MetadataGet(metadata, col) == IF col \in DOMAIN metadata THEN metadata[col] ELSE ""

SeqRange(s) == {s[i] : i \in 1..Len(s)}

\* {col: metadata.get(col, "") ...} updated with row_dict
EnrichedRow(metadata, row_dict) ==
    [col \in SeqRange(SCHEDULE_METADATA_COLUMNS) \cup DOMAIN row_dict |->
        IF col \in DOMAIN row_dict THEN row_dict[col] ELSE MetadataGet(metadata, col)]

\* {col: cleaned_row[idx] ...}; here the cells are taken one column to the right
RowDict_Shifted(header_names, cleaned_row) ==
    [col \in SeqRange(header_names) |->
        cleaned_row[(SetMax({i \in 1..Len(header_names) : header_names[i] = col})
                        % Len(header_names)) + 1]]

\* {col: cleaned_row[idx] for idx, col in enumerate(header_names)}
RowDict(header_names, cleaned_row) ==
    [col \in SeqRange(header_names) |->
        cleaned_row[SetMax({i \in 1..Len(header_names) : header_names[i] = col})]]

\* the padding or truncation of a cleaned row to the header length
PadRow(cleaned_row, n) ==
    [i \in 1..n |-> IF i <= Len(cleaned_row) THEN cleaned_row[i] ELSE ""]

\* the data row is skipped: blank, a page footer, or the header again
RowSkipped(cleaned_row, canonical_tuple) ==
    \/ ~AnyText(cleaned_row)
    \/ StartsWith(Lower(cleaned_row[1]), "page ") /\ Contains(Lower(cleaned_row[1]), " of ")
    \/ /\ Len(cleaned_row) >= Len(canonical_tuple)
       /\ SubSeq(cleaned_row, 1, Len(canonical_tuple)) = canonical_tuple
    \/ flatten_values(cleaned_row) = flatten_values(canonical_tuple)

RECURSIVE TableRecords(_, _, _)
\* the loop over table[1:]
TableRecords(raw_rows, canonical_tuple, metadata) ==
    IF raw_rows = <<>> THEN <<>>
    ELSE LET cleaned_row == normalised_header(Head(raw_rows))
         IN  (IF RowSkipped(cleaned_row, canonical_tuple) THEN <<>>
              ELSE <<EnrichedRow(metadata,
                                 RowDict(canonical_tuple,
                                         PadRow(cleaned_row, Len(canonical_tuple))))>>)
                 \o TableRecords(Tail(raw_rows), canonical_tuple, metadata)

GatherStart ==
    [schedule_rows |-> [name \in SeqRange(POFD_SCHEDULE_ORDER) |-> <<>>],
     last_schedule_name |-> None,
     last_header_by_schedule |-> [name \in SeqRange(POFD_SCHEDULE_ORDER) |-> None]]

\* the table is filed under schedule_name with the header canonical_tuple
FileTable(st, table, schedule_name, canonical_tuple, metadata) ==
    [schedule_rows |->
        [st.schedule_rows EXCEPT ![schedule_name] =
            @ \o TableRecords(Tail(table), canonical_tuple, metadata)],
     last_schedule_name |-> Some(schedule_name),
     last_header_by_schedule |->
        [st.last_header_by_schedule EXCEPT ![schedule_name] = Some(canonical_tuple)]]

\* one table of the loop of gather_schedule_rows
GatherTable(st, table, metadata) ==
    IF table = <<>> \/ table[1] = <<>> THEN st
    ELSE
    LET supplemental_rentals == extract_rental_appendix_rows(table)
        header_tuple == normalised_header(table[1])
        k == HeaderMapIndex(header_tuple)
        last == st.last_schedule_name
        cached_header == st.last_header_by_schedule[last[1]]
    IN  IF supplemental_rentals # <<>>
        THEN [schedule_rows |->
                 [st.schedule_rows EXCEPT !["Income"] =
                     @ \o [i \in 1..Len(supplemental_rentals) |->
                              EnrichedRow(metadata, supplemental_rentals[i])]],
              last_schedule_name |-> Some("Income"),
              last_header_by_schedule |->
                 [st.last_header_by_schedule EXCEPT
                     !["Income"] = Some(get_default_header("Income"))]]
        ELSE IF k # 0
        THEN FileTable(st, table, SCHEDULE_HEADER_MAP[k].name,
                       SCHEDULE_HEADER_MAP[k].header, metadata)
        ELSE IF /\ ~AnyText(header_tuple)
                /\ last # None
                /\ cached_header # None
                /\ Len(cached_header[1]) > 0
                /\ RowLengths(table) # {}
                /\ SetMax(RowLengths(table)) >= Len(cached_header[1])
        THEN FileTable(st, table, last[1], cached_header[1], metadata)
        ELSE st

RECURSIVE GatherTables(_, _, _)
\* for page in pdf.pages: for table in page.extract_tables()
GatherTables(st, tables, metadata) ==
    IF tables = <<>> THEN st
    ELSE GatherTables(GatherTable(st, Head(tables), metadata), Tail(tables), metadata)

gather_schedule_rows(tables, metadata) ==
    GatherTables(GatherStart, tables, metadata).schedule_rows
(***************************************************************************)
(* disclosure_parser/split_schedules.py: parse_schedule_*_page.  A page    *)
(* parser returns (rows, bool(cutoff_top)).                                *)
(***************************************************************************)
ROW_TOLERANCE == 12
ROW_TOLERANCE_C == 6
ROW_TOLERANCE_D == 6
ROW_TOLERANCE_E == 6
ROW_TOLERANCE_F == 6

assign_schedule_a_column(x0, column_starts) ==
    IF x0 < column_starts[2] - 15 THEN 1
    ELSE IF x0 < column_starts[3] - 5 THEN 2
    ELSE IF x0 < column_starts[4] - 5 THEN 3
    ELSE IF x0 < column_starts[5] - 5 THEN 4
    ELSE IF x0 < column_starts[6] - 5 THEN 5
    ELSE 6

assign_schedule_b_column(x0, column_starts) ==
    IF x0 < column_starts[2] - 15 THEN 1
    ELSE IF x0 < column_starts[3] - 5 THEN 2
    ELSE IF x0 < column_starts[4] - 5 THEN 3
    ELSE IF x0 < column_starts[5] - 5 THEN 4
    ELSE IF x0 < column_starts[6] - 5 THEN 5
    ELSE 6

assign_schedule_c_column(x0, column_starts) ==
    IF x0 < column_starts[2] - 10 THEN 1
    ELSE IF x0 < column_starts[3] - 5 THEN 2
    ELSE 3

\* assign_schedule_d_column with the creditor limit at column_starts[1] - 5
assign_schedule_d_column_Margin5(x0, column_starts) ==
    IF x0 < column_starts[2] - 5 THEN 1
    ELSE IF x0 < column_starts[3] - 5 THEN 2
    ELSE IF x0 < column_starts[4] - 5 THEN 3
    ELSE IF x0 < column_starts[5] - 5 THEN 4
    ELSE 5

assign_schedule_d_column(x0, column_starts) ==
    IF x0 < column_starts[2] - 10 THEN 1
    ELSE IF x0 < column_starts[3] - 5 THEN 2
    ELSE IF x0 < column_starts[4] - 5 THEN 3
    ELSE IF x0 < column_starts[5] - 5 THEN 4
    ELSE 5

assign_schedule_e_column(x0, column_starts) ==
    IF x0 < column_starts[2] - 5 THEN 1 ELSE 2

assign_schedule_f_column(x0, column_starts) ==
    IF x0 < column_starts[2] - 5 THEN 1
    ELSE IF x0 < column_starts[3] - 5 THEN 2
    ELSE 3

\* the routing of Schedule A with every word left in the column of its position
RouteScheduleA_Keep(column, text) == column

\* lines 578-587: a word that does not look like its column's content goes to Asset
RouteScheduleA(column, text) ==
    IF column = 2 /\ ~is_owner_token(text) THEN 1
    ELSE IF column = 3 /\ ~is_value_token(text) THEN 1
    ELSE IF column = 4 /\ ~is_income_type_token(text) THEN 1
    ELSE IF column = 5 /\ ~(is_income_amount_token(text) \/ is_income_type_token(text)) THEN 1
    ELSE IF column = 6 /\ Lower(Strip(text)) \notin {"yes", "no"} THEN 1
    ELSE column

\* lines 927-964; a description fragment is appended to Asset after the same
\* row-break test as any other word
RouteScheduleB(column, text) ==
    IF is_schedule_b_description_fragment(text) THEN 1
    ELSE IF column = 2 /\ ~is_owner_token(text)
         THEN IF is_date_token(text) THEN 3
              ELSE IF is_tx_type_token(text) THEN 4
              ELSE IF is_transaction_amount_token(text) THEN 5
              ELSE 1
    ELSE IF column = 3 /\ ~is_date_token(text)
         THEN IF is_owner_token(text) THEN 2
              ELSE IF is_tx_type_token(text) THEN 4
              ELSE IF is_transaction_amount_token(text) THEN 5
              ELSE 1
    ELSE IF column = 4 /\ ~is_tx_type_token(text)
         THEN IF is_date_token(text) THEN 3
              ELSE IF is_transaction_amount_token(text) THEN 5
              ELSE 1
    ELSE IF column = 5 /\ ~is_transaction_amount_token(text) THEN 1
    ELSE column

\* the column a data word is appended to
WordColumn(s, word, column_starts) ==
    LET text == normalise_word_text(word.text)
    IN  CASE s = "A" -> RouteScheduleA(assign_schedule_a_column(word.x0, column_starts), text)
          [] s = "B" -> RouteScheduleB(assign_schedule_b_column(word.x0, column_starts), text)
          [] s = "C" -> assign_schedule_c_column(word.x0, column_starts)
          [] s = "D" -> assign_schedule_d_column(word.x0, column_starts)
          [] s = "E" -> assign_schedule_e_column(word.x0, column_starts)
          [] s = "F" -> assign_schedule_f_column(word.x0, column_starts)

\* the footnote lines that end Schedule A (lines 568-573)
WordBreaks(s, text) ==
    /\ s = "A"
    /\ \/ StartsWith(text, "*")
       \/ StartsWith(Lower(text), "asset class details")
       \/ StartsWith(Lower(text), "for the complete")

\* the words a segmenter passes over
WordSkipped(s, text) ==
    \/ StartsWith(Lower(text), "https://")
    \/ (s # "A" /\ StartsWith(Lower(text), "* asset class"))
    \/ (s = "D" /\ Lower(text) = "liability")

RowTolerance(s) ==
    CASE s \in {"A", "B"} -> ROW_TOLERANCE
      [] s = "C" -> ROW_TOLERANCE_C
      [] s = "D" -> ROW_TOLERANCE_D
      [] s = "E" -> ROW_TOLERANCE_E
      [] s = "F" -> ROW_TOLERANCE_F

\* data words start this far below the header line
HeaderOffset(s) == IF s = "D" THEN 15 ELSE 5

ColumnCount(s) ==
    CASE s \in {"A", "B"} -> 6
      [] s = "C" -> 3
      [] s = "D" -> 5
      [] s = "E" -> 2
      [] s = "F" -> 3

\* the tops of the words holding "B:" (parse_schedule_a_page)
ScheduleBMarkers(words) ==
    {words[i].top : i \in {j \in 1..Len(words) :
                              Contains(normalise_word_text(words[j].text), "B:")}}

\* the tops of the words "S C:..." or "C:" (parse_schedule_b_page)
ScheduleCMarkers(words) ==
    {words[i].top : i \in {j \in 1..Len(words) :
        \/ StartsWith(normalise_word_text(words[j].text), "S C:")
        \/ normalise_word_text(words[j].text) = "C:"}}

\* the tops of the words "S <letter>...", "<letter>:", or "S" followed in the
\* word list by a word starting with the letter (parse_schedule_c..f_page)
NextScheduleMarkers(words, letter) ==
    {words[i].top : i \in {j \in 1..Len(words) :
        \/ StartsWith(normalise_word_text(words[j].text), "S " \o letter)
        \/ normalise_word_text(words[j].text) = letter \o ":"
        \/ /\ normalise_word_text(words[j].text) = "S"
           /\ j + 1 <= Len(words)
           /\ StartsWith(normalise_word_text(words[j + 1].text), letter)}}

Markers(s, words) ==
    CASE s = "A" -> ScheduleBMarkers(words)
      [] s = "B" -> ScheduleCMarkers(words)
      [] s = "C" -> NextScheduleMarkers(words, "D")
      [] s = "D" -> NextScheduleMarkers(words, "E")
      [] s = "E" -> NextScheduleMarkers(words, "F")
      [] s = "F" -> NextScheduleMarkers(words, "G")

\* cutoff_top = min(markers) if markers else None
CutoffTop(markers) == IF markers = {} THEN None ELSE Some(Min(markers))

\* bool(cutoff_top): None is falsy, and so is the number 0
ReachedNextSchedule(cutoff_top) == cutoff_top # None /\ cutoff_top[1] # 0

RECURSIVE InsertByTopX0(_, _)
InsertByTopX0(sorted, w) ==
    IF sorted = <<>> THEN <<w>>
    ELSE IF \/ Head(sorted).top < w.top
            \/ (Head(sorted).top = w.top /\ Head(sorted).x0 <= w.x0)
         THEN <<Head(sorted)>> \o InsertByTopX0(Tail(sorted), w)
         ELSE <<w>> \o sorted

RECURSIVE SortByTopX0(_)
\* data_words.sort(key=lambda w: (w["top"], w["x0"])): stable
SortByTopX0(words) ==
    IF words = <<>> THEN <<>>
    ELSE InsertByTopX0(SortByTopX0(SubSeq(words, 1, Len(words) - 1)), words[Len(words)])

DataWords(s, words, header_top) ==
    SortByTopX0(SelectSeq(words, LAMBDA w : w.top > header_top + HeaderOffset(s)))

RECURSIVE JoinWords(_)
\* " ".join(texts)
JoinWords(texts) ==
    IF texts = <<>> THEN ""
    ELSE IF Len(texts) = 1 THEN texts[1]
    ELSE texts[1] \o " " \o JoinWords(Tail(texts))

EmptyCurrent(s) == [c \in 1..ColumnCount(s) |-> <<>>]

\* the open row appended with only the first word of every cell
AppendCurrent_FirstWord(rows, current) ==
    IF \E c \in 1..Len(current) : current[c] # <<>>
    THEN Append(rows, [c \in 1..Len(current) |->
                          IF current[c] = <<>> THEN "" ELSE clean_cell(current[c][1])])
    ELSE rows

\* if any(current[col] ...): rows.append([clean_cell(" ".join(current[col])) ...])
AppendCurrent(rows, current) ==
    IF \E c \in 1..Len(current) : current[c] # <<>>
    THEN Append(rows, [c \in 1..Len(current) |-> clean_cell(JoinWords(current[c]))])
    ELSE rows

\* one word appended, with current_top following every appended word
PlaceWord_Drift(s, st, column, text, top) ==
    IF st.current_top = None \/ Abs(top - st.current_top[1]) > RowTolerance(s)
    THEN [rows |-> AppendCurrent(st.rows, st.current),
          current |-> [EmptyCurrent(s) EXCEPT ![column] = <<text>>],
          current_top |-> Some(top)]
    ELSE [st EXCEPT !.current[column] = Append(@, text), !.current_top = Some(top)]

\* one word appended: a new row is opened when the word is more than the row
\* tolerance away from the top of the first word of the open row
PlaceWord(s, st, column, text, top) ==
    IF st.current_top = None \/ Abs(top - st.current_top[1]) > RowTolerance(s)
    THEN [rows |-> AppendCurrent(st.rows, st.current),
          current |-> [EmptyCurrent(s) EXCEPT ![column] = <<text>>],
          current_top |-> Some(top)]
    ELSE [st EXCEPT !.current[column] = Append(@, text)]

RECURSIVE SegmentWords(_, _, _, _, _, _)
\* the loop `for word in data_words`
SegmentWords(s, data_words, i, cutoff_top, column_starts, st) ==
    IF i > Len(data_words) THEN st
    ELSE LET word == data_words[i]
             text == normalise_word_text(word.text)
         IN  IF cutoff_top # None /\ word.top >= cutoff_top[1] - 1 THEN st
             ELSE IF text = ""
                  THEN SegmentWords(s, data_words, i + 1, cutoff_top, column_starts, st)
             ELSE IF WordBreaks(s, text) THEN st
             ELSE IF WordSkipped(s, text)
                  THEN SegmentWords(s, data_words, i + 1, cutoff_top, column_starts, st)
             ELSE SegmentWords(s, data_words, i + 1, cutoff_top, column_starts,
                      PlaceWord(s, st, WordColumn(s, word, column_starts), text, word.top))

\* the rows of a page before the schedule's own filtering
SegmentedRows(s, words, column_starts, header_top) ==
    LET st == SegmentWords(s, DataWords(s, words, header_top), 1,
                           CutoffTop(Markers(s, words)), column_starts,
                           [rows |-> <<>>, current |-> EmptyCurrent(s), current_top |-> None])
    IN  AppendCurrent(st.rows, st.current)

AnyCell(row) == \E c \in 1..Len(row) : row[c] # ""

\* re.match(r'^([A-Z])\s*:', cell)
LetterColon(cell) ==
    /\ cell # ""
    /\ \E i \in 1..26 : Char(UpperLetters, i) = Char(cell, 1)
    /\ StartsWith(LStrip(Tail(cell)), ":")

RECURSIVE MergeLetterRows(_, _, _)
\* lines 603-608: an Asset-only row "X: ..." joins the Asset cell of the row before
MergeLetterRows(rows, i, merged_rows) ==
    IF i > Len(rows) THEN merged_rows
    ELSE LET row == rows[i]
             n == Len(merged_rows)
         IN  IF /\ merged_rows # <<>>
                /\ row[1] # ""
                /\ ~AnyCell(Tail(row))
                /\ LetterColon(row[1])
             THEN MergeLetterRows(rows, i + 1,
                      [merged_rows EXCEPT ![n][1] = @ \o "\n" \o row[1]])
             ELSE MergeLetterRows(rows, i + 1, Append(merged_rows, row))

\* lines 981-995: header text that was segmented as a row
ScheduleBHeaderRow(row) ==
    \/ Lower(Strip(row[1])) \in SCHEDULE_B_HEADER_TOKENS
    \/ /\ row[1] = "" /\ row[2] = "" /\ row[3] = ""
       /\ Lower(row[4]) = "type"
       /\ row[5] = ""
       /\ row[6] # ""
       /\ Contains(Lower(row[6]), "gains")

PageResult(rows, cutoff_top) ==
    [rows |-> rows, reached |-> ReachedNextSchedule(cutoff_top)]

parse_schedule_a_page(words, column_starts, header_top) ==
    PageResult(SelectSeq(MergeLetterRows(SegmentedRows("A", words, column_starts, header_top),
                                         1, <<>>),
                         AnyCell),
               CutoffTop(Markers("A", words)))

parse_schedule_b_page(words, column_starts, header_top) ==
    PageResult(SelectSeq(SegmentedRows("B", words, column_starts, header_top),
                         LAMBDA row : AnyCell(row) /\ ~ScheduleBHeaderRow(row)),
               CutoffTop(Markers("B", words)))

parse_schedule_c_page(words, column_starts, header_top) ==
    PageResult(SelectSeq(SegmentedRows("C", words, column_starts, header_top), AnyCell),
               CutoffTop(Markers("C", words)))

parse_schedule_d_page(words, column_starts, header_top) ==
    PageResult(SelectSeq(SegmentedRows("D", words, column_starts, header_top), AnyCell),
               CutoffTop(Markers("D", words)))

parse_schedule_e_page(words, column_starts, header_top) ==
    PageResult(SelectSeq(SegmentedRows("E", words, column_starts, header_top), AnyCell),
               CutoffTop(Markers("E", words)))

parse_schedule_f_page(words, column_starts, header_top) ==
    PageResult(SelectSeq(SegmentedRows("F", words, column_starts, header_top), AnyCell),
               CutoffTop(Markers("F", words)))


(***************************************************************************)
(* extract_schedule_*_from_pdf: the loop over the pages of the PDF.        *)
(***************************************************************************)

\* header_info = find_schedule_*_header(words)
FindHeaderOf(s, words) ==
    CASE s = "A" -> find_schedule_a_header(words)
      [] s = "B" -> find_schedule_b_header(words)
      [] s = "C" -> find_schedule_c_header(words)
      [] s = "D" -> find_schedule_d_header(words)
      [] s = "E" -> find_schedule_e_header(words)
      [] s = "F" -> find_schedule_f_header(words)

\* page_rows, reached_next = parse_schedule_*_page(words, column_starts, header_top)
ParsePageOf(s, words, column_starts, header_top) ==
    CASE s = "A" -> parse_schedule_a_page(words, column_starts, header_top)
      [] s = "B" -> parse_schedule_b_page(words, column_starts, header_top)
      [] s = "C" -> parse_schedule_c_page(words, column_starts, header_top)
      [] s = "D" -> parse_schedule_d_page(words, column_starts, header_top)
      [] s = "E" -> parse_schedule_e_page(words, column_starts, header_top)
      [] s = "F" -> parse_schedule_f_page(words, column_starts, header_top)

\* the value returned after the loop; Schedule C returns its rows as they are
ReturnedRowsOf(s, rows) ==
    CASE s = "A" -> consolidate_schedule_a(rows)
      [] s = "B" -> consolidate_schedule_b(rows)
      [] s = "C" -> rows
      [] s = "D" -> consolidate_schedule_d(rows)
      [] s = "E" -> consolidate_schedule_e(rows)
      [] s = "F" -> consolidate_schedule_f(rows)

\* if header_info: header_top, column_starts = header_info; collecting = True
CarriedAfterHeader(state, header) ==
    IF header.kind = "found"
    THEN [collecting |-> TRUE, column_starts |-> header.column_starts,
          header_top |-> Some(header.top)]
    ELSE state

\* the loop that goes on to the next page whatever the page's flag
AfterPage_NoBreak(reached_next) == "loop"

\* if reached_next: break
AfterPage(reached_next) == IF reached_next THEN "broke" ELSE "loop"

(***************************************************************************)
(* The entry points and what they do to the output side of the file        *)
(* system: alaska_project process_filings and process_single_pdf,          *)
(* disclosure_parser process_single_pdf, finance_pipeline                  *)
(* process_reports.main.  A PDF is "good" or "unreadable"; reading an      *)
(* unreadable one raises inside pdfplumber or in the parsing that follows. *)
(***************************************************************************)
FsOp(op, path) == [op |-> op, path |-> path]

\* sorted(directory.glob(pattern)): nothing for a path that is not a directory
Glob(src) == IF src.exists /\ src.is_dir THEN src.files ELSE <<>>

\* the emptiness test left out
NoPdfFiles_Never(pdf_files) == FALSE

\* `if not pdf_files:`
NoPdfFiles(pdf_files) == pdf_files = <<>>

\* process_reports.ensure_clean_dir(path)
ensure_clean_dir(path, exists) ==
    (IF exists THEN <<FsOp("rmtree", path)>> ELSE <<>>) \o <<FsOp("mkdir", path)>>

\* process_pdf up to the call of extract_pdf, and extract_pdf's own mkdir
ProcessPdfPrepare(i, exists) ==
    ensure_clean_dir(<<"text", i>>, exists)
        \o ensure_clean_dir(<<"csv", i>>, exists)
        \o <<FsOp("mkdir", <<"workbooks">>), FsOp("mkdir", <<"text", i>>)>>

\* the rest of process_pdf for a PDF that reads: page texts and document.txt,
\* the CSV files, the workbook
ProcessPdfOutputs(i) ==
    <<FsOp("write", <<"text", i>>), FsOp("write", <<"csv", i>>),
      FsOp("mkdir", <<"workbooks">>), FsOp("write", <<"workbooks", i>>)>>

\* output_path.parent.mkdir, schedules_to_excel, the Summary sheet appended
AlaskaWorkbookOps ==
    <<FsOp("mkdir", <<"output_parent">>), FsOp("write", <<"output">>),
      FsOp("write", <<"output">>)>>

\* split_schedules.write_excel
DisclosureWorkbookOps ==
    <<FsOp("mkdir", <<"output_parent">>), FsOp("write", <<"output">>)>>


(***************************************************************************)
(* disclosure_parser/split_schedules.py: write_excel.  A sheet is its name,*)
(* the column labels of its DataFrame and the DataFrame's rows.            *)
(***************************************************************************)
SCHEDULE_ORDER == <<"A", "B", "C", "D", "E", "F", "G", "H", "I">>

\* SCHEDULE_META[key]["sheet"]
SCHEDULE_META(key) == "Schedule " \o key

SCHEDULE_COLUMNS ==
    [key \in {"A", "B", "C", "D", "E", "F", "G", "H", "I"} |->
        CASE key = "A" -> <<"Asset", "Owner", "Value of Asset", "Income Type(s)", "Income",
                            "Tx. > $1,000?">>
          [] key = "B" -> <<"Asset", "Owner", "Date", "Tx. Type", "Amount",
                            "Cap. Gains > $200?">>
          [] key = "C" -> <<"Source", "Type", "Amount">>
          [] key = "D" -> <<"Owner", "Creditor", "Date Incurred", "Type",
                            "Amount of Liability">>
          [] key = "E" -> <<"Position", "Name of Organization">>
          [] key = "F" -> <<"Date", "Parties To", "Terms of Agreement">>
          [] key = "G" -> <<"Source", "Description", "Value">>
          [] key = "H" -> <<"Date(s)", "City and State", "Nature of Event",
                            "Item(s) Provided/Expenses Paid", "Provided By">>
          [] key = "I" -> <<"Date(s)", "Payee", "Amount">>]

\* d.get(key, default) for a dict modelled as a function
DictGet(d, key, default) == IF key \in DOMAIN d THEN d[key] ELSE default

\* notes or ["No data extracted."]; here the placeholder is never written
NotesOrPlaceholder_Bare(notes) == IF notes = None THEN <<>> ELSE notes[1]

\* notes or ["No data extracted."], notes being None or a list
NotesOrPlaceholder(notes) ==
    IF notes = None \/ notes[1] = <<>> THEN <<"No data extracted.">> ELSE notes[1]

\* the sheet write_excel writes for one key
SheetOf(key, schedule_rows, schedule_notes) ==
    LET rows == DictGet(schedule_rows, key, <<>>)
        notes == IF key \in DOMAIN schedule_notes THEN Some(schedule_notes[key]) ELSE None
    IN  IF rows # <<>>
        THEN [sheet_name |-> SCHEDULE_META(key),
              columns |-> IF SCHEDULE_COLUMNS[key] # <<>> THEN SCHEDULE_COLUMNS[key]
                          ELSE [i \in 1..Len(rows[1]) |-> "Column " \o ToString(i)],
              data |-> rows]
        ELSE [sheet_name |-> SCHEDULE_META(key),
              columns |-> <<"Notes">>,
              data |-> [i \in 1..Len(NotesOrPlaceholder(notes)) |->
                           <<NotesOrPlaceholder(notes)[i]>>]]

\* the sheets of the workbook in the order written
write_excel(schedule_rows, schedule_notes) ==
    [k \in 1..Len(SCHEDULE_ORDER) |-> SheetOf(SCHEDULE_ORDER[k], schedule_rows, schedule_notes)]

(***************************************************************************)
(* finance_pipeline/csv_to_workbook.py: sheet names of the workbook.       *)
(***************************************************************************)

\* the characters INVALID_SHEET_CHARS matches
INVALID_SHEET_CHARS == {":", "\\", "/", "?", "*", "[", "]"}

RECURSIVE SubInvalid(_)
\* INVALID_SHEET_CHARS.sub("_", name)
SubInvalid(name) ==
    IF name = "" THEN ""
    ELSE (IF Char(name, 1) \in INVALID_SHEET_CHARS THEN "_" ELSE Char(name, 1))
             \o SubInvalid(Tail(name))

\* s[:n]
Prefix(s, n) == SubSeq(s, 1, IF Len(s) < n THEN Len(s) ELSE n)

safe_sheet_name(name) ==
    LET title == Strip(SubInvalid(name))
    IN  IF title = "" THEN "Sheet" ELSE Prefix(title, 31)

\* f"{sheet_name[:29]}_{suffix}"
Candidate(sheet_name, suffix) == Prefix(sheet_name, 29) \o "_" \o ToString(suffix)

RECURSIVE FirstFreeCandidate(_, _, _)
\* the while loop of add_csv_to_workbook
FirstFreeCandidate(sheet_name, suffix, names) ==
    IF Candidate(sheet_name, suffix) \in SeqRange(names)
    THEN FirstFreeCandidate(sheet_name, suffix + 1, names)
    ELSE Candidate(sheet_name, suffix)

\* the title add_csv_to_workbook gives the new sheet of the workbook
NewSheetTitle(stem, names) ==
    IF safe_sheet_name(stem) \in SeqRange(names)
    THEN FirstFreeCandidate(safe_sheet_name(stem), 1, names)
    ELSE safe_sheet_name(stem)

(***************************************************************************)
(* finance_pipeline/compile_pdf_to_csv.py: DocumentParser.  An entry of    *)
(* the model carries schedule, part, page, name, amount, state, zip_code,  *)
(* contributor_type, the employer's address and description; the date, the *)
(* city and the employer's name and occupation move no index and are left  *)
(* out of the record.                                                      *)
(***************************************************************************)

\* clean(line): strip, then html.unescape (the character "&" is outside the alphabet)
clean(line) == Strip(line)

is_blank(line) == clean(line) = ""

RECURSIVE SplitTokens(_)
\* text.split()
SplitTokens(text) ==
    IF text = "" THEN <<>>
    ELSE IF IsSpace(Char(text, 1)) THEN SplitTokens(Tail(text))
    ELSE LET n == Min({i \in 1..(Len(text) + 1) : i > Len(text) \/ IsSpace(Char(text, i))})
         IN  <<SubSeq(text, 1, n - 1)>> \o SplitTokens(SubSeq(text, n, Len(text)))

AllDigits(s) == s # "" /\ \A i \in 1..Len(s) : IsDigit(Char(s, i))

\* the end of the run of [0-9,] that starts at position i
RECURSIVE AmountRunEnd(_, _)
AmountRunEnd(text, i) ==
    IF i <= Len(text) /\ (IsDigit(Char(text, i)) \/ Char(text, i) = ",")
    THEN AmountRunEnd(text, i + 1)
    ELSE i

\* r"\$ ([\d,]+\.\d{2})" matches at position i: the run of digits and commas is
\* taken whole, since none of its characters is the "." that must follow it
AmountMatchAt(text, i) ==
    /\ i + 1 <= Len(text)
    /\ SubSeq(text, i, i + 1) = "$ "
    /\ AmountRunEnd(text, i + 2) > i + 2
    /\ AmountRunEnd(text, i + 2) + 2 <= Len(text)
    /\ Char(text, AmountRunEnd(text, i + 2)) = "."
    /\ IsDigit(Char(text, AmountRunEnd(text, i + 2) + 1))
    /\ IsDigit(Char(text, AmountRunEnd(text, i + 2) + 2))

\* parse_amount: the group of the leftmost match, or ""
parse_amount(text) ==
    IF \E i \in 1..Len(text) : AmountMatchAt(text, i)
    THEN SubSeq(text, Min({i \in 1..Len(text) : AmountMatchAt(text, i)}) + 2,
                AmountRunEnd(text, Min({i \in 1..Len(text) : AmountMatchAt(text, i)}) + 2) + 2)
    ELSE ""

\* re.fullmatch(r"\d{1,2}\s+\d{1,2}\s+\d{4}", text)
DateFullmatch(text) ==
    /\ text # ""
    /\ ~IsSpace(Char(text, 1))
    /\ ~IsSpace(Char(text, Len(text)))
    /\ Len(SplitTokens(text)) = 3
    /\ \A k \in 1..3 : AllDigits(SplitTokens(text)[k])
    /\ Len(SplitTokens(text)[1]) <= 2
    /\ Len(SplitTokens(text)[2]) <= 2
    /\ Len(SplitTokens(text)[3]) = 4

\* " ".join(tokens[from:])
JoinFrom(tokens, from) ==
    IF from > Len(tokens) THEN "" ELSE JoinWords(SubSeq(tokens, from, Len(tokens)))

\* parse_state_zip_line: (state, zip_code)
parse_state_zip_line(line) ==
    IF SplitTokens(clean(line)) = <<>> THEN <<"", "">>
    ELSE <<SplitTokens(clean(line))[1], JoinFrom(SplitTokens(clean(line)), 2)>>

\* parse_state_zip_description_line: (state, zip_code, description)
parse_state_zip_description_line(line) ==
    IF SplitTokens(clean(line)) = <<>> THEN <<"", "", "">>
    ELSE <<SplitTokens(clean(line))[1],
           IF Len(SplitTokens(clean(line))) > 1 THEN SplitTokens(clean(line))[2] ELSE "",
           JoinFrom(SplitTokens(clean(line)), 3)>>

\* re.fullmatch(r"[A-Z]{2}", tok)
StateToken(tok) ==
    Len(tok) = 2 /\ \A i \in 1..2 : \E j \in 1..26 : Char(UpperLetters, j) = Char(tok, i)

\* the four values of parse_employer_address_line for the tokens of the line,
\* k the position of the first state token (0 when there is none)
EmployerAddressOf(text, tokens, k) ==
    IF k = 0 \/ k = 1 \/ k + 1 > Len(tokens) THEN <<"", "", "", text>>
    ELSE <<JoinWords(SubSeq(tokens, 1, k - 1)), tokens[k], tokens[k + 1], JoinFrom(tokens, k + 2)>>

FirstStateToken(tokens) ==
    IF \E k \in 1..Len(tokens) : StateToken(tokens[k])
    THEN Min({k \in 1..Len(tokens) : StateToken(tokens[k])})
    ELSE 0

\* parse_employer_address_line: (city, state, zip, description)
parse_employer_address_line(line) ==
    IF clean(line) = "" THEN <<"", "", "", "">>
    ELSE EmployerAddressOf(clean(line), SplitTokens(clean(line)),
                           FirstStateToken(SplitTokens(clean(line))))

\* clean(self.lines[idx]) if idx < len(self.lines) else ""  (idx counts from 0)
LineAt(lines, idx) == IF idx < Len(lines) THEN clean(lines[idx + 1]) ELSE ""

RECURSIVE skip_blank_lines(_, _)
\* _skip_blank_lines
skip_blank_lines(lines, idx) ==
    IF idx < Len(lines) /\ is_blank(lines[idx + 1]) THEN skip_blank_lines(lines, idx + 1)
    ELSE idx

RECURSIVE CollectNameFrom(_, _, _, _)
CollectNameFrom(lines, idx, stop_tokens, parts) ==
    IF idx >= Len(lines) THEN [name |-> JoinWords(parts), idx |-> idx]
    ELSE IF LineAt(lines, idx) = "" THEN CollectNameFrom(lines, idx + 1, stop_tokens, parts)
    ELSE IF \E t \in stop_tokens : StartsWith(LineAt(lines, idx), t)
         THEN [name |-> JoinWords(parts), idx |-> idx]
    ELSE CollectNameFrom(lines, idx + 1, stop_tokens, Append(parts, LineAt(lines, idx)))

\* collect_name: the lines up to the first that starts with a stop token
collect_name(lines, idx, stop_tokens) == CollectNameFrom(lines, idx, stop_tokens, <<>>)

\* if idx < len(self.lines) and clean(self.lines[idx]) == "MO DAY YEAR": idx += 1
AfterMoDayYear(lines, idx) ==
    IF idx < Len(lines) /\ LineAt(lines, idx) = "MO DAY YEAR" THEN idx + 1 ELSE idx

\* if ... clean(self.lines[idx]).startswith("Mailing Address"): idx += 1
AfterMailingLabel(lines, idx) ==
    IF idx < Len(lines) /\ StartsWith(LineAt(lines, idx), "Mailing Address") THEN idx + 1 ELSE idx

\* if re.fullmatch(<date>, date_line): idx += 1
AfterDateLine(lines, idx) == IF DateFullmatch(LineAt(lines, idx)) THEN idx + 1 ELSE idx

\* if amount: idx += 1
AfterAmountLine(lines, idx) == IF parse_amount(LineAt(lines, idx)) # "" THEN idx + 1 ELSE idx

\* if mailing_label_line.startswith("Employer Mailing Address"): idx += 1
AfterEmployerLabel(lines, idx) ==
    IF StartsWith(LineAt(lines, idx), "Employer Mailing Address") THEN idx + 1 ELSE idx

NoAddress == <<"", "", "", "">>

ContributionEntry(schedule_, part, page, name, amount_, state_zip, contributor_type, employer, description) ==
    [schedule |-> schedule_, part |-> part, page |-> page, name |-> name,
     amount |-> amount_, state |-> state_zip[1], zip_code |-> state_zip[2],
     contributor_type |-> contributor_type, employer_city |-> employer[1],
     employer_state |-> employer[2], employer_zip |-> employer[3],
     description |-> description]

ExpenditureEntry(page, payee, amount_, state_zip_description, description) ==
    [schedule |-> "III", page |-> page, payee |-> payee, amount |-> amount_,
     state |-> state_zip_description[1], zip_code |-> state_zip_description[2],
     description |-> description]

\* the part of _parse_schedule_i_part_a and _b after collect_name: cn is the
\* name and the index of the mailing line, d the index of the city line
PartABTail(lines, page, part, contributor_type, cn, d) ==
    [entry |-> ContributionEntry("I", part, page, cn.name, parse_amount(LineAt(lines, cn.idx)),
                                 parse_state_zip_line(LineAt(lines, d + 1)), contributor_type,
                                 NoAddress, ""),
     idx |-> skip_blank_lines(lines, d + 2)]

PartABFrom(lines, page, part, contributor_type, cn) ==
    PartABTail(lines, page, part, contributor_type, cn, AfterDateLine(lines, cn.idx + 1))

parse_schedule_i_part_a(lines, idx, page) ==
    PartABFrom(lines, page, "A", "Political Committee",
               collect_name(lines, AfterMoDayYear(lines, idx + 1), {"Mailing Address"}))

parse_schedule_i_part_b(lines, idx, page) ==
    PartABFrom(lines, page, "B", "Other",
               collect_name(lines, AfterMoDayYear(lines, idx + 1), {"Mailing Address"}))

\* the part of _parse_schedule_i_part_c after the date line: d is the index of
\* the city line
PartCTail(lines, page, cn, d) ==
    [entry |-> ContributionEntry("I", "C", page, cn.name, parse_amount(LineAt(lines, cn.idx)),
                                 parse_state_zip_line(LineAt(lines, d + 1)),
                                 "Political Committee", NoAddress, ""),
     idx |-> skip_blank_lines(lines, d + 2)]

\* the index of the city line of parts C and G, from the index collect_name returned
CityIndexAfterAmount(lines, idx) ==
    AfterDateLine(lines, AfterMailingLabel(lines, AfterAmountLine(lines, idx)))

PartCFrom(lines, page, cn) == PartCTail(lines, page, cn, CityIndexAfterAmount(lines, cn.idx))

parse_schedule_i_part_c(lines, idx, page) ==
    PartCFrom(lines, page,
              collect_name(lines, AfterMoDayYear(lines, idx + 1), {"$", "Mailing Address"}))

\* the employer address line of parts D and G, e the index after the employer line
EmployerAddressLine(lines, e) == LineAt(lines, AfterEmployerLabel(lines, e))

PartDTail(lines, idx, page, cn, d) ==
    [entry |-> ContributionEntry("I", "D", page, cn.name, parse_amount(LineAt(lines, idx + 1)),
                                 parse_state_zip_line(LineAt(lines, d + 1)), "Other",
                                 parse_employer_address_line(EmployerAddressLine(lines, d + 3)),
                                 ""),
     idx |-> skip_blank_lines(lines, AfterEmployerLabel(lines, d + 3) + 1)]

PartDFrom(lines, idx, page, cn) ==
    PartDTail(lines, idx, page, cn, AfterDateLine(lines, AfterMailingLabel(lines, cn.idx)))

parse_schedule_i_part_d(lines, idx, page) ==
    PartDFrom(lines, idx, page, collect_name(lines, idx + 2, {"Mailing Address"}))

\* prelim.startswith("MO DAY YEAR")
HasPrelim(lines, idx) == idx + 1 < Len(lines) /\ StartsWith(LineAt(lines, idx + 1), "MO DAY YEAR")

\* description_line.split("Receipt Description", 1)[1].strip()
ReceiptDescription(line) ==
    IF StartsWith(line, "Receipt Description")
    THEN Strip(SubSeq(line, Len("Receipt Description") + 1, Len(line)))
    ELSE ""

PartETail(lines, idx, page, cn, d) ==
    [entry |-> ContributionEntry("I", "E", page, cn.name,
                                 IF HasPrelim(lines, idx)
                                 THEN parse_amount(LineAt(lines, idx + 1)) ELSE "",
                                 parse_state_zip_line(LineAt(lines, d + 1)), "Receipt",
                                 NoAddress, ReceiptDescription(LineAt(lines, d + 2))),
     idx |-> skip_blank_lines(lines,
                 IF StartsWith(LineAt(lines, d + 2), "Receipt Description")
                 THEN d + 3 ELSE d + 2)]

PartEFrom(lines, idx, page, cn) ==
    PartETail(lines, idx, page, cn, AfterDateLine(lines, AfterMailingLabel(lines, cn.idx)))

parse_schedule_i_part_e(lines, idx, page) ==
    PartEFrom(lines, idx, page,
              collect_name(lines, IF HasPrelim(lines, idx) THEN idx + 2 ELSE idx + 1,
                           {"Mailing Address"}))

PartGTail(lines, page, cn, d) ==
    [entry |-> ContributionEntry("II", "G", page, cn.name, parse_amount(LineAt(lines, cn.idx)),
                                 parse_state_zip_line(LineAt(lines, d + 1)), "In-Kind",
                                 parse_employer_address_line(EmployerAddressLine(lines, d + 3)),
                                 parse_employer_address_line(EmployerAddressLine(lines, d + 3))[4]),
     idx |-> skip_blank_lines(lines, AfterEmployerLabel(lines, d + 3) + 1)]

PartGFrom(lines, page, cn) == PartGTail(lines, page, cn, CityIndexAfterAmount(lines, cn.idx))

parse_schedule_ii_part_g(lines, idx, page) ==
    PartGFrom(lines, page,
              collect_name(lines, AfterMoDayYear(lines, idx + 1), {"$", "Mailing Address"}))

\* PAGE_TIMESTAMP_RE.fullmatch(text): d{1,2}/d{1,2}/d{4}, blanks, d{1,2}:dd:dd,
\* blanks, AM or PM
TimestampFullmatch(text) ==
    LET t == SplitTokens(text)
    IN  /\ text # "" /\ ~IsSpace(Char(text, 1)) /\ ~IsSpace(Char(text, Len(text)))
        /\ Len(t) = 3
        /\ t[3] \in {"AM", "PM"}
        /\ \E a \in 1..2, b \in 1..2 :
              /\ Len(t[1]) = a + b + 6
              /\ AllDigits(SubSeq(t[1], 1, a)) /\ Char(t[1], a + 1) = "/"
              /\ AllDigits(SubSeq(t[1], a + 2, a + b + 1)) /\ Char(t[1], a + b + 2) = "/"
              /\ AllDigits(SubSeq(t[1], a + b + 3, a + b + 6))
        /\ \E a \in 1..2 :
              /\ Len(t[2]) = a + 6
              /\ AllDigits(SubSeq(t[2], 1, a)) /\ Char(t[2], a + 1) = ":"
              /\ AllDigits(SubSeq(t[2], a + 2, a + 3)) /\ Char(t[2], a + 4) = ":"
              /\ AllDigits(SubSeq(t[2], a + 5, a + 6))

\* the lines that end the description of an expenditure
EndsDescription(line) ==
    \/ \E p \in {"To Whom Paid", "MO DAY YEAR", "Mailing Address", "City ", "--- Page", "PAGE "} :
          StartsWith(line, p)
    \/ TimestampFullmatch(line)

RECURSIVE DescriptionFrom(_, _, _)
\* the loop `while idx < len(self.lines)` of _parse_schedule_iii
DescriptionFrom(lines, idx, description) ==
    IF idx >= Len(lines) THEN [description |-> description, idx |-> idx]
    ELSE IF LineAt(lines, idx) = "" THEN DescriptionFrom(lines, idx + 1, description)
    ELSE IF EndsDescription(LineAt(lines, idx)) THEN [description |-> description, idx |-> idx]
    ELSE DescriptionFrom(lines, idx + 1,
             IF description # "" THEN Strip(description \o " " \o LineAt(lines, idx))
             ELSE LineAt(lines, idx))

\* the index of the state line: the line after the mailing line, or the one
\* after that when the first starts with "City"
StateIndex(lines, m) ==
    IF m + 1 < Len(lines) /\ StartsWith(LineAt(lines, m + 1), "City") THEN m + 2 ELSE m + 1

ScheduleIIITail(lines, page, cn, szd, ds) ==
    [entry |-> ExpenditureEntry(page, cn.name, parse_amount(LineAt(lines, cn.idx)), szd,
                                ds.description),
     idx |-> skip_blank_lines(lines, ds.idx)]

ScheduleIIIFrom(lines, page, cn, s) ==
    ScheduleIIITail(lines, page, cn, parse_state_zip_description_line(LineAt(lines, s)),
        DescriptionFrom(lines, s + 1,
                        Strip(parse_state_zip_description_line(LineAt(lines, s))[3])))

ScheduleIIINamed(lines, page, cn) == ScheduleIIIFrom(lines, page, cn, StateIndex(lines, cn.idx))

parse_schedule_iii(lines, idx, page) ==
    ScheduleIIINamed(lines, page,
                     collect_name(lines, AfterMoDayYear(lines, idx + 1), {"Mailing Address"}))

\* int(token) for an optional sign and decimal digits; None for a ValueError
IntOf(token) ==
    IF AllDigits(token) THEN Some(ParseInt(token))
    ELSE IF Len(token) > 1 /\ Char(token, 1) = "+" /\ AllDigits(Tail(token))
         THEN Some(ParseInt(Tail(token)))
    ELSE IF Len(token) > 1 /\ Char(token, 1) = "-" /\ AllDigits(Tail(token))
         THEN Some(0 - ParseInt(Tail(token)))
    ELSE None

\* int(line.split()[1]), 0 on IndexError and ValueError
PageNumber(line) ==
    IF Len(SplitTokens(line)) < 2 \/ IntOf(SplitTokens(line)[2]) = None THEN 0
    ELSE IntOf(SplitTokens(line)[2])[1]

\* tokens[1] if len(tokens) >= 2 else line.replace("PART", "").strip()
PartToken(line) ==
    IF Len(SplitTokens(line)) >= 2 THEN SplitTokens(line)[2]
    ELSE Strip(Replace(line, "PART", ""))

\* self.idx left where it is
NextLine_Stay(idx) == idx

\* self.idx += 1
NextLine(idx) == idx + 1

ResultKeys ==
    {"schedule_i_part_a", "schedule_i_part_b", "schedule_i_part_c", "schedule_i_part_d",
     "schedule_i_part_e", "schedule_ii_part_g", "schedule_iii"}

\* the branch of parse that a line opens in the schedule and part in force, or
\* "" when it opens none
EntryBranch(schedule_, part, line) ==
    IF schedule_ = "SCHEDULE I" /\ part = "A"
          /\ StartsWith(line, "Full Name of Contributing Committee") THEN "schedule_i_part_a"
    ELSE IF schedule_ = "SCHEDULE I" /\ part = "B"
          /\ StartsWith(line, "Full Name of Contributor") THEN "schedule_i_part_b"
    ELSE IF schedule_ = "SCHEDULE I" /\ part = "C"
          /\ StartsWith(line, "Full Name of Contributing Committee") THEN "schedule_i_part_c"
    ELSE IF schedule_ = "SCHEDULE I" /\ part = "D"
          /\ StartsWith(line, "Full Name of Contributor") THEN "schedule_i_part_d"
    ELSE IF schedule_ = "SCHEDULE I" /\ part = "E"
          /\ StartsWith(line, "Full Name") THEN "schedule_i_part_e"
    ELSE IF schedule_ = "SCHEDULE II" /\ part = "G"
          /\ StartsWith(line, "Full Name of Contributor") THEN "schedule_ii_part_g"
    ELSE IF schedule_ = "SCHEDULE III" /\ StartsWith(line, "To Whom Paid") THEN "schedule_iii"
    ELSE ""

(***************************************************************************)
(* Amount texts: a text is the concatenation of at most MaxParts parts, a  *)
(* part being a number written with thousands separators after "$" or a    *)
(* blank, or a phrase.  No part begins or ends with a digit or a comma     *)
(* except a number's own digits, so the numbers of a text are its number   *)
(* parts.                                                                  *)
(***************************************************************************)
MaxParts == 3

DigitChar(d) == Char("0123456789", d + 1)

RECURSIVE Digits(_)
Digits(n) == IF n < 10 THEN DigitChar(n) ELSE Digits(n \div 10) \o DigitChar(n % 10)

Pad3(n) == DigitChar(n \div 100) \o DigitChar((n \div 10) % 10) \o DigitChar(n % 10)

RECURSIVE FormatThousands(_)
\* 1000 is written "1,000"
FormatThousands(n) ==
    IF n < 1000 THEN Digits(n)
    ELSE FormatThousands(n \div 1000) \o "," \o Pad3(n % 1000)

AmountValues == {5, 20, 1000}

NumberParts == [n : AmountValues, s : {"$", " "}]

AmountPhrases ==
    {"not more than ", "Not more than ", " or more", " - ", " and ", "Less than ",
     "more than ", "between ", "from ", " to ", " - up to "}

PhraseParts == [n : {-1}, s : AmountPhrases]

AmountParts == NumberParts \cup PhraseParts

RenderPart(part) == IF part.n >= 0 THEN part.s \o FormatThousands(part.n) ELSE part.s

RECURSIVE RenderParts(_)
RenderParts(parts) ==
    IF parts = <<>> THEN "" ELSE RenderPart(Head(parts)) \o RenderParts(Tail(parts))

PartSeqs == UNION {[1..k -> AmountParts] : k \in 0..MaxParts}

TextAmount(parts) ==
    [kind |-> "text", tenths |-> 0, parts |-> parts, text |-> RenderParts(parts)]

AmountInputs ==
    {[kind |-> "none", tenths |-> 0, parts |-> <<>>, text |-> ""]}
        \cup {[kind |-> "number", tenths |-> t, parts |-> <<>>, text |-> ""] :
                 t \in {-15, 0, 49, 10000}}
        \cup {TextAmount(parts) : parts \in PartSeqs}

Pending == [returned |-> FALSE, min |-> None, max |-> None]

IdleAmount ==
    /\ amount = [kind |-> "none", tenths |-> 0, parts |-> <<>>, text |-> ""]
    /\ bounds = Pending

(***************************************************************************)
(* Segmented rows given to the consolidators: at most MaxRows rows, each   *)
(* one of the schedule's row shapes.  Every non-empty cell of row i ends   *)
(* with the i-th letter of RowTagLetters, which occurs nowhere else, so a  *)
(* cell of the output shows which input rows it was made from.             *)
(***************************************************************************)
MaxRows == 3

RowTagLetters == "WXZQJK"

RowTag(i) == Char(RowTagLetters, i)

ConsolidatedSchedules == {"A", "B", "D", "E", "F"}

RowShapes(s) ==
    CASE s = "A" ->
           {<<"Fund", "SP", "$5", "Rent", "", "">>,
            <<"Inc", "", "", "", "", "">>,
            <<"", "", "see", "", "", "">>,
            <<"", "", "None", "Tax", "$9", "No">>,
            <<"Lot", "DC", "tbd", "", "", "">>}
      [] s = "B" ->
           {<<"Fund", "SP", "1/2/20", "P", "$5", "No">>,
            <<"D: lot", "", "", "", "", "">>,
            <<"Inc", "", "", "", "", "">>,
            <<"12-", "DC", "", "", "", "">>,
            <<"Co", "Spouse", "", "", "", "Yes">>,
            <<"", "L:b", "", "", "", "">>}
      [] s = "D" ->
           {<<"SP", "Bank", "1/20", "Loan", "$5">>,
            <<"", "", "", "Note", "">>,
            <<"", "", "", "", "$9">>,
            <<"", "Trust", "", "", "">>,
            <<"", "", "", "on", "None">>}
      [] s = "E" ->
           {<<"Dir", "Org">>, <<"Dir", "">>, <<"", "Org">>}
      [] s = "F" ->
           {<<"1/20", "Co", "Pay">>, <<"", "Co", "">>, <<"", "", "Pay">>,
            <<"1/20", "", "">>}

TagRow(shape, i) ==
    [c \in 1..Len(shape) |-> IF shape[c] = "" THEN "" ELSE shape[c] \o RowTag(i)]

TagRows(shapes) == [i \in 1..Len(shapes) |-> TagRow(shapes[i], i)]

SegmentedInputs(s) ==
    {TagRows(shapes) : shapes \in UNION {[1..k -> RowShapes(s)] : k \in 0..MaxRows}}

NotReturned == [returned |-> FALSE, rows |-> <<>>]

IdleCons ==
    /\ schedule = "none"
    /\ segmented = <<>>
    /\ consolidated = NotReturned


(***************************************************************************)
(* Rows of schedule B as the segmenter emits them, some with an asset cell *)
(* of punctuation and digits only.                                         *)
(***************************************************************************)
NoiseRowShapes ==
    {<<"Fund", "SP", "1/2/20", "P", "$5", "No">>,
     <<"12-", "DC", "", "", "", "">>,
     <<"--", "", "1/2/20", "", "", "">>,
     <<"Ab", "JT", "", "", "", "">>,
     <<"Inc", "", "", "", "", "">>,
     <<"", "SP", "", "S", "", "">>,
     <<"401", "", "", "", "", "">>}

NoiseInputs == UNION {[1..k -> NoiseRowShapes] : k \in 0..MaxRows}
(***************************************************************************)
(* Pages given to the header detectors and page parsers: the words of a    *)
(* header line (each label absent, or at one of its positions), at most    *)
(* MaxBody data words, and the words of a next-schedule marker.  Positions *)
(* are whole points.                                                       *)
(***************************************************************************)
MaxBody == 1

Word(text, x0, top) == [text |-> text, x0 |-> x0, top |-> top]

ScheduleKeys == {"A", "B", "C", "D", "E", "F"}

\* per label of the schedule's header, the ways the label occurs on the page
HeaderSlots(s) ==
    CASE s = "A" ->
           <<{<<>>, <<Word("Asset", 40, 100)>>},
             {<<>>, <<Word("Owner", 200, 101)>>},
             {<<>>, <<Word("Value", 260, 100)>>},
             {<<>>, <<Word("Income", 330, 100)>>,
              <<Word("Income", 330, 100), Word("Income", 400, 102)>>},
             {<<>>, <<Word("Tx.", 470, 100)>>, <<Word("Tx.", 390, 100)>>}>>
      [] s = "B" ->
           <<{<<Word("Asset", 40, 100)>>},
             {<<>>, <<Word("Owner", 200, 100)>>},
             {<<>>, <<Word("Date", 260, 101)>>, <<Word("Date", 150, 100)>>},
             {<<>>, <<Word("Tx.", 330, 100)>>},
             {<<>>, <<Word("Amount", 400, 100)>>},
             {<<>>, <<Word("Cap.", 470, 100)>>}>>
      [] s = "C" ->
           <<{<<>>, <<Word("Source", 40, 100)>>},
             {<<>>, <<Word("Type", 250, 100)>>, <<Word("Type", 20, 102)>>},
             {<<>>, <<Word("Amount", 400, 100)>>}>>
      [] s = "D" ->
           <<{<<>>, <<Word("Owner", 40, 100)>>},
             {<<>>, <<Word("Creditor", 100, 100)>>},
             {<<>>, <<Word("Date", 250, 100)>>},
             {<<>>, <<Word("Type", 330, 101)>>, <<Word("Type", 230, 100)>>},
             {<<>>, <<Word("Amount", 420, 100)>>}>>
      [] s = "E" ->
           <<{<<>>, <<Word("Position", 40, 100)>>},
             {<<>>, <<Word("Name", 200, 100)>>, <<Word("Organization", 230, 101)>>,
              <<Word("Name", 20, 100)>>}>>
      [] s = "F" ->
           <<{<<>>, <<Word("Date", 40, 100)>>},
             {<<>>, <<Word("Parties", 150, 100)>>},
             {<<>>, <<Word("Terms", 300, 101)>>, <<Word("Terms", 100, 100)>>}>>

RECURSIVE ConcatAll(_)
ConcatAll(seqs) == IF seqs = <<>> THEN <<>> ELSE Head(seqs) \o ConcatAll(Tail(seqs))

HeaderLines(s) ==
    {ConcatAll(choice) :
        choice \in {f \in [1..Len(HeaderSlots(s)) -> UNION {HeaderSlots(s)[i] : i \in 1..Len(HeaderSlots(s))}] :
                       \A i \in 1..Len(HeaderSlots(s)) : f[i] \in HeaderSlots(s)[i]}}

BodyWords ==
    {Word("Acme", 40, 120), Word("SP", 200, 120), Word("$5", 260, 126),
     Word("Loan", 330, 140), Word("https://x", 40, 160)}

Bodies == UNION {[1..k -> BodyWords] : k \in 0..MaxBody}

\* the letter of the schedule that follows
NextLetter(s) ==
    CASE s = "A" -> "B" [] s = "B" -> "C" [] s = "C" -> "D"
      [] s = "D" -> "E" [] s = "E" -> "F" [] s = "F" -> "G"

MarkerWords(s) ==
    {<<>>,
     <<Word(NextLetter(s) \o ":", 40, 0)>>,
     <<Word(NextLetter(s) \o ":", 40, 140)>>,
     <<Word("S", 40, 300), Word(NextLetter(s), 50, 300)>>}

PageInputs(s) ==
    {h \o b \o m : h \in HeaderLines(s), b \in Bodies, m \in MarkerWords(s)}

\* the column starts of the schedule's header as the form prints it
FormColumnStarts(s) ==
    CASE s \in {"A", "B"} -> <<40, 200, 260, 330, 400, 470>>
      [] s = "C" -> <<40, 250, 400>>
      [] s = "D" -> <<40, 100, 250, 330, 420>>
      [] s = "E" -> <<40, 200>>
      [] s = "F" -> <<40, 150, 300>>

\* extract_schedule_*_from_pdf before the header has been seen on any page
NotCollecting == [collecting |-> FALSE, column_starts |-> <<>>, header_top |-> None]

\* ... and once an earlier page has shown it
CollectingFrom(s) ==
    [collecting |-> TRUE, column_starts |-> FormColumnStarts(s), header_top |-> Some(100)]

HeaderPending == [kind |-> "pending", top |-> 0, column_starts |-> <<>>]

PagePending == [status |-> "pending", rows |-> <<>>, reached |-> FALSE]

PageSkipped == [status |-> "skipped", rows |-> <<>>, reached |-> FALSE]

IdlePage ==
    /\ page_schedule = "none"
    /\ page_words = <<>>
    /\ carried = NotCollecting
    /\ header_info = HeaderPending
    /\ page_result = PagePending


(***************************************************************************)
(* Inputs of the row segmenter: a continuation page of at most MaxSegWords *)
(* words below the header, each with a text of its own, at tops that lie   *)
(* 6, 7, 12, 13 and 19 below the highest one.                              *)
(***************************************************************************)
MaxSegWords == 3

SegmentTops == {120, 126, 127, 132, 133, 139}

\* the k-th word of the page, in the k-th column of the form (the last column
\* for the words beyond it)
SegmentWord(s, k, top) ==
    Word("w" \o ToString(k),
         FormColumnStarts(s)[IF k < ColumnCount(s) THEN k ELSE ColumnCount(s)], top)

SegmentInputs(s) ==
    UNION {{[k \in 1..n |-> SegmentWord(s, k, tops[k])] : tops \in [1..n -> SegmentTops]} :
              n \in 0..MaxSegWords}

(***************************************************************************)
(* Inputs of the Schedule A re-routing: a continuation page of at most     *)
(* MaxRouteWords words, owner codes, value tokens and other texts, each at *)
(* the Asset, Owner or Value position.                                     *)
(***************************************************************************)
MaxRouteWords == 2

RouteTexts == {"SP", "Self", "Acme", "$5", "Rent"}

RouteWords ==
    {Word(text, x0, top) : text \in RouteTexts, x0 \in {40, 200, 260}, top \in {120, 140}}

RouteInputs == UNION {[1..k -> RouteWords] : k \in 0..MaxRouteWords}

(***************************************************************************)
(* PDFs given to extract_schedule_*_from_pdf: at most MaxPages pages, each *)
(* empty, a body line, the schedule's header over a body line, a body line *)
(* over the next schedule's marker, the header over both, the marker at    *)
(* the very top of the page, or a header line with labels missing.         *)
(***************************************************************************)
MaxPages == 3

\* the header line of the schedule as the form prints it
FormHeaderLine(s) ==
    CASE s = "A" ->
           <<Word("Asset", 40, 100), Word("Owner", 200, 101), Word("Value", 260, 100),
             Word("Income", 330, 100), Word("Income", 400, 102), Word("Tx.", 470, 100)>>
      [] s = "B" ->
           <<Word("Asset", 40, 100), Word("Owner", 200, 100), Word("Date", 260, 101),
             Word("Tx.", 330, 100), Word("Amount", 400, 100), Word("Cap.", 470, 100)>>
      [] s = "C" ->
           <<Word("Source", 40, 100), Word("Type", 250, 100), Word("Amount", 400, 100)>>
      [] s = "D" ->
           <<Word("Owner", 40, 100), Word("Creditor", 100, 100), Word("Date", 250, 100),
             Word("Type", 330, 101), Word("Amount", 420, 100)>>
      [] s = "E" ->
           <<Word("Position", 40, 100), Word("Name", 200, 100)>>
      [] s = "F" ->
           <<Word("Date", 40, 100), Word("Parties", 150, 100), Word("Terms", 300, 101)>>

\* header lines on which the detector fails
BrokenHeaderLines(s) ==
    CASE s = "A" -> {<<Word("Asset", 40, 100), Word("Owner", 200, 101)>>}
      [] s = "D" -> {<<Word("Owner", 40, 100), Word("Creditor", 100, 100),
                       Word("Amount", 420, 100)>>}
      [] OTHER -> {}

BodyLine == <<Word("Acme", 40, 120)>>

MarkerLine(s, top) == <<Word(NextLetter(s) \o ":", 40, top)>>

PdfPageKinds(s) ==
    {<<>>,
     BodyLine,
     FormHeaderLine(s) \o BodyLine,
     BodyLine \o MarkerLine(s, 140),
     FormHeaderLine(s) \o BodyLine \o MarkerLine(s, 140),
     MarkerLine(s, 0) \o BodyLine}
        \cup BrokenHeaderLines(s)

PdfInputs(s) == UNION {[1..k -> PdfPageKinds(s)] : k \in 0..MaxPages}

IdleExtract ==
    /\ ex_schedule = "none"
    /\ ex_pages = <<>>
    /\ ex_idx = 1
    /\ ex_carried = NotCollecting
    /\ ex_rows = <<>>
    /\ ex_trace = <<>>
    /\ ex_pc = "loop"
    /\ ex_out = <<>>

(***************************************************************************)
(* Inputs of the word-conservation check: a continuation page of Schedule  *)
(* C, D, E or F with at most MaxConserveWords words.  A body word has a    *)
(* text of its own and stands in the first or second column, above the     *)
(* header offset of every schedule (104), above that of Schedule D only    *)
(* (112), or on a line at 120, 126 or 132.  The other words are a URL, a   *)
(* footnote, a blank and the label "Liability" at 120, and the marker of   *)
(* the next schedule above the header offset or one point below a line.    *)
(***************************************************************************)
MaxConserveWords == 2

ConserveSchedules == {"C", "D", "E", "F"}

ConserveShapes ==
    ({"body"} \X (1..2) \X {104, 112, 120, 126, 132})
        \cup ({"url", "footnote", "blank", "label"} \X {1} \X {120})
        \cup ({"marker"} \X {1} \X {104, 121, 127})

NextLetterOf(s) ==
    CASE s = "C" -> "D"
      [] s = "D" -> "E"
      [] s = "E" -> "F"
      [] s = "F" -> "G"

ConserveText(s, k, kind) ==
    CASE kind = "body" -> "w" \o ToString(k)
      [] kind = "url" -> "https://u" \o ToString(k)
      [] kind = "footnote" -> "* Asset class details"
      [] kind = "blank" -> " "
      [] kind = "label" -> "Liability"
      [] kind = "marker" -> NextLetterOf(s) \o ":"

ConserveWord(s, k, shape) ==
    Word(ConserveText(s, k, shape[1]), FormColumnStarts(s)[shape[2]], shape[3])

ConserveInputs(s) ==
    UNION {{[k \in 1..n |-> ConserveWord(s, k, ch[k])] : ch \in [1..n -> ConserveShapes]} :
              n \in 0..MaxConserveWords}
(***************************************************************************)
(* Inputs of the entry points: a path that does not exist, a path that is  *)
(* not a directory, or a directory of at most MaxPdfs PDFs in sorted order.*)
(***************************************************************************)
MaxPdfs == 3

PdfKinds == {"good", "unreadable"}

DirectoryEntryPoints == {"process_filings", "process_reports"}

SinglePdfEntryPoints == {"alaska_single", "disclosure_single"}

Source(exists, is_dir, files) == [exists |-> exists, is_dir |-> is_dir, files |-> files]

DirectorySources ==
    {Source(FALSE, FALSE, <<>>), Source(TRUE, FALSE, <<>>)}
        \cup {Source(TRUE, TRUE, files) : files \in UNION {[1..k -> PdfKinds] : k \in 0..MaxPdfs}}

SinglePdfSources ==
    {Source(FALSE, FALSE, <<>>)} \cup {Source(TRUE, FALSE, <<kind>>) : kind \in PdfKinds}

IdleBatch ==
    /\ entry = "none"
    /\ source = Source(FALSE, FALSE, <<>>)
    /\ prior_outputs = FALSE
    /\ pc = "start"
    /\ pdf_index = 1
    /\ fs_ops = <<>>
    /\ produced = {}


(***************************************************************************)
(* Inputs of AZReportParser: the pages of a report whose schedule body has *)
(* at most MaxContributionLines or MaxVendorLines lines, on one page or    *)
(* continued on a second page under the page's header lines.               *)
(***************************************************************************)
MaxContributionLines == 3

MaxVendorLines == 4

ContributionLines ==
    {"Doe, Jo", "Roe, Al", "1 Elm St, Mesa AZ 85001", "01/02/2024 $50.00",
     "01/02 $50.00", "$150.00", "Total of Individual Contributions"}

VendorLines ==
    {"Acme", "Beta Co", "01/02/2024 $5.00 Name:", "Memo: ads", "Total of Schedule"}

AzCalls == {"parse_contributions", "parse_operating_expenses", "parse_other_receipts"}

\* the schedule marker each method asks _collect_schedule_lines for
MarkerOf(call) ==
    IF call = "parse_contributions" THEN _SCHEDULE_MARKERS[1]
    ELSE IF call = "parse_operating_expenses" THEN _SCHEDULE_MARKERS[3]
    ELSE _SCHEDULE_MARKERS[5]

AzBodies(call) ==
    IF call = "parse_contributions"
    THEN UNION {[1..k -> ContributionLines] : k \in 0..MaxContributionLines}
    ELSE UNION {[1..k -> VendorLines] : k \in 0..MaxVendorLines}

PageHeaderLines == <<"Covers 01/01/2024 to 03/31/2024", "", "  Filed on 04/15/2024 ">>

\* the body under its schedule marker on one page, and the same body broken
\* after its first line by a page break
Layouts(call, body) ==
    {<< <<"Quarter 1 Report", MarkerOf(call)>> \o body >>}
        \cup (IF Len(body) < 2 THEN {}
              ELSE {<< <<MarkerOf(call), body[1]>>,
                       PageHeaderLines \o SubSeq(body, 2, Len(body)) >>})

AzReports(call) == UNION {Layouts(call, body) : body \in AzBodies(call)}

AzPending == [state |-> "pending"]

AzReturned(entries) == [state |-> "returned", entries |-> entries]

IdleAz ==
    /\ az_call = "none"
    /\ az_pages = <<>>
    /\ az_entries = AzPending

(***************************************************************************)
(* Inputs of _collect_schedule_lines: a report of one page of at most      *)
(* MaxPageLines lines, or of two pages, the second one line shorter.  A    *)
(* line is the requested schedule's marker, another schedule's marker, a   *)
(* page header, or a body line that names its page and position.           *)
(***************************************************************************)
MaxPageLines == 3

CollectLineKinds == {"requested", "other", "header", "body"}

\* the markers _collect_schedule_lines is asked for, and another schedule's
\* marker for each
RequestedMarkers == {_SCHEDULE_MARKERS[1], _SCHEDULE_MARKERS[3]}

OtherMarkerOf(marker) ==
    IF marker = _SCHEDULE_MARKERS[1] THEN _SCHEDULE_MARKERS[3] ELSE _SCHEDULE_MARKERS[1]

CollectLine(marker, kind, p, i) ==
    CASE kind = "requested" -> marker
      [] kind = "other" -> OtherMarkerOf(marker)
      [] kind = "header" -> "Covers 01/01/2024 to 03/31/2024"
      [] kind = "body" -> "Doe " \o ToString(p) \o "-" \o ToString(i)

CollectPageShapes(longest) == UNION {[1..n -> CollectLineKinds] : n \in 0..longest}

CollectPage(marker, shape, p) == [i \in 1..Len(shape) |-> CollectLine(marker, shape[i], p, i)]

CollectReports(marker) ==
    {<<CollectPage(marker, s1, 1)>> : s1 \in CollectPageShapes(MaxPageLines)}
        \cup {<<CollectPage(marker, s1, 1), CollectPage(marker, s2, 2)>> :
                 s1 \in CollectPageShapes(MaxPageLines),
                 s2 \in CollectPageShapes(MaxPageLines - 1)}

CollectCall(marker) == [method |-> "_collect_schedule_lines", marker |-> marker]

(***************************************************************************)
(* Inputs of gather_schedule_rows: at most MaxTables tables of a filing.   *)
(***************************************************************************)
MaxTables == 2

\* a row of str cells
TextRow(cells) == [i \in 1..Len(cells) |-> Some(cells[i])]

LoansHeader == TextRow(<<"Owner", "Type", "Name">>)

PofdTables ==
    {<<LoansHeader, TextRow(<<"SP", "Loan", "Example Bank">>)>>,
     <<LoansHeader,
       <<Some("Page 1 of 2"), None, None>>,
       LoansHeader,
       <<Some(""), None, Some(" ")>>,
       TextRow(<<"Filer", "Credit  Card", "First Bank", "extra">>)>>,
     <<<<None, Some(""), None>>, TextRow(<<"SP", "Loan", "Second Bank">>)>>,
     <<<<Some("owner type"), Some(" name ")>>, TextRow(<<"DC", "Mortgage">>)>>,
     <<TextRow(<<"Asset", "Value">>), TextRow(<<"House", "$5">>)>>,
     <<TextRow(<<"Associated Person", "Description">>), TextRow(<<"Pat Roe", "Partner">>)>>,
     <<TextRow(<<"Rental Income", "">>),
       TextRow(<<"Date Range 2023", "all year">>),
       TextRow(<<"12 Elm St Total (USD)", "More than $1,000">>)>>,
     << <<>> >>}

PofdMetadata ==
    {[x \in {} |-> ""],
     [x \in {"Source File", "Report Year"} |->
         IF x = "Source File" THEN "filing.pdf" ELSE "2023"]}

PofdPending == [state |-> "pending"]

PofdReturned(rows) == [state |-> "returned", schedule_rows |-> rows]

IdlePofd ==
    /\ pofd_tables = <<>>
    /\ pofd_metadata = [x \in {} |-> ""]
    /\ pofd_rows = PofdPending

(***************************************************************************)
(* Inputs of write_excel, as extract_schedule_tables leaves them: rows of  *)
(* the width of the schedule's column list for at most MaxSchedules        *)
(* schedules, an empty row list for a schedule that was only seen, and the *)
(* "None disclosed" notes of at most one schedule.                         *)
(***************************************************************************)
MaxSchedules == 2

ScheduleKeysAtoI == SeqRange(SCHEDULE_ORDER)

DataRowsOf(key) ==
    <<[i \in 1..Len(SCHEDULE_COLUMNS[key]) |-> "cell " \o ToString(i)],
      [i \in 1..Len(SCHEDULE_COLUMNS[key]) |-> IF i = 1 THEN "more" ELSE ""]>>

ScheduleRowInputs ==
    {[key \in filled \cup seen |-> IF key \in filled THEN DataRowsOf(key) ELSE <<>>] :
        filled \in {S \in SUBSET ScheduleKeysAtoI : Cardinality(S) <= MaxSchedules},
        seen \in {S \in SUBSET ScheduleKeysAtoI : Cardinality(S) <= 1}}

ScheduleNoteInputs ==
    {[key \in noted |-> <<"None disclosed.">>] :
        noted \in {S \in SUBSET ScheduleKeysAtoI : Cardinality(S) <= 1}}

ExcelPending == [state |-> "pending"]

ExcelWritten(sheets) == [state |-> "written", sheets |-> sheets]

IdleExcel ==
    /\ xl_rows = [key \in {} |-> <<>>]
    /\ xl_notes = [key \in {} |-> <<>>]
    /\ xl_sheets = ExcelPending

(***************************************************************************)
(* Inputs of csv_to_workbook: the stems of the CSV files added, at most    *)
(* MaxSheets of them.  Two long stems give the same sheet name, one of     *)
(* them through its invalid characters; a blank stem gives "Sheet"; the    *)
(* remaining one is what the counter suffix makes of the long name.        *)
(***************************************************************************)
MaxSheets == 11

CsvStems ==
    {"MI_Contributions_Expenditures_2023", "MI/Contributions:Expenditures_2024",
     "MI_Contributions_Expenditures_1", " "}

IdleCsv == sheetnames = <<>>

(***************************************************************************)
(* Inputs of the column assigners: a column_starts list of the schedule's  *)
(* length over a grid of MaxGrid + 1 positions, in any order, and an x0    *)
(* among MaxStep + 1 positions.                                            *)
(***************************************************************************)
MaxGrid == 2

MaxStep == 9

GridPositions == {20 * k : k \in 0..MaxGrid}

X0Positions == {5 * k : k \in 0..MaxStep}

ColumnStartsInputs(s) == [1..ColumnCount(s) -> GridPositions]

IdleColumn ==
    /\ col_schedule = "none"
    /\ col_x0 = 0
    /\ col_starts = <<>>
    /\ col_assigned = 0

(***************************************************************************)
(* Inputs of DocumentParser: a document that opens with a page header, a   *)
(* blank line, a schedule header, the part header of the schedule's part,  *)
(* a line of running text and the line that opens an entry there, followed *)
(* by at most MaxDocLines lines (the opening line again, a blank line, a   *)
(* page header, a name, a mailing line with an amount, or a state line)    *)
(* and by the first three lines of another entry.                          *)
(***************************************************************************)
MaxDocLines == 3

DocContexts ==
    {<<"SCHEDULE I", "A">>, <<"SCHEDULE I", "B">>, <<"SCHEDULE I", "C">>,
     <<"SCHEDULE I", "D">>, <<"SCHEDULE I", "E">>, <<"SCHEDULE II", "G">>,
     <<"SCHEDULE III", "">>}

\* the line that opens an entry of the form in the schedule and part
OpeningLine(ctx) ==
    CASE ctx[2] \in {"A", "C"} -> "Full Name of Contributing Committee"
      [] ctx[2] \in {"B", "D", "G"} -> "Full Name of Contributor"
      [] ctx[2] = "E" -> "Full Name"
      [] ctx[2] = "" -> "To Whom Paid"

DocPrefix(ctx) ==
    <<"PAGE 1", "", ctx[1]>>
        \o (IF ctx[2] = "" THEN <<>> ELSE <<"PART " \o ctx[2]>>)
        \o <<"Campaign Statement", OpeningLine(ctx)>>

BodyLines(ctx) ==
    {OpeningLine(ctx), "", "PAGE 2", "ACME", "Mailing Address 1 Main St $ 5.00",
     "MI 48901 Rent"}

DocTrailer(ctx) == <<OpeningLine(ctx), "BETA", "Mailing Address 2 Oak St $ 7.50">>

DocumentInputs ==
    UNION {UNION {{DocPrefix(ctx) \o body \o DocTrailer(ctx) : body \in [1..n -> BodyLines(ctx)]} :
                     n \in 0..MaxDocLines} : ctx \in DocContexts}

NoResults == [k \in ResultKeys |-> <<>>]

IdleDocument ==
    /\ dp_lines = <<>>
    /\ dp_idx = 0
    /\ dp_page = 0
    /\ dp_schedule = ""
    /\ dp_part = ""
    /\ dp_results = NoResults
    /\ dp_steps = 0
InitAmount ==
    /\ amount \in AmountInputs
    /\ bounds = Pending
    /\ IdleCons
    /\ IdlePage
    /\ IdleBatch
    /\ IdleAz
    /\ IdlePofd
    /\ IdleExcel
    /\ IdleCsv
    /\ IdleColumn
    /\ IdleExtract
    /\ IdleDocument

\* one call parse_amount_bounds(amount)
ParseAmount ==
    /\ ~bounds.returned
    /\ bounds' = [returned |-> TRUE,
                  min |-> parse_amount_bounds(amount).min,
                  max |-> parse_amount_bounds(amount).max]
    /\ UNCHANGED <<amount, consVars, pageVars, batchVars, azVars, pofdVars, excelVars, csvVars, columnVars, extractVars, docVars>>

NextAmount == ParseAmount

SpecAmount == InitAmount /\ [][NextAmount]_vars

InitCons ==
    /\ schedule \in ConsolidatedSchedules
    /\ segmented \in SegmentedInputs(schedule)
    /\ consolidated = NotReturned
    /\ IdleAmount
    /\ IdlePage
    /\ IdleBatch
    /\ IdleAz
    /\ IdlePofd
    /\ IdleExcel
    /\ IdleCsv
    /\ IdleColumn
    /\ IdleExtract
    /\ IdleDocument

Returns(rows) ==
    /\ ~consolidated.returned
    /\ consolidated' = [returned |-> TRUE, rows |-> rows]
    /\ UNCHANGED <<schedule, segmented, amountVars, pageVars, batchVars, azVars, pofdVars, excelVars, csvVars, columnVars, extractVars, docVars>>

ConsolidateScheduleA == schedule = "A" /\ Returns(consolidate_schedule_a(segmented))

ConsolidateScheduleB == schedule = "B" /\ Returns(consolidate_schedule_b(segmented))

ConsolidateScheduleD == schedule = "D" /\ Returns(consolidate_schedule_d(segmented))

ConsolidateScheduleE == schedule = "E" /\ Returns(consolidate_schedule_e(segmented))

ConsolidateScheduleF == schedule = "F" /\ Returns(consolidate_schedule_f(segmented))

NextCons ==
    \/ ConsolidateScheduleA
    \/ ConsolidateScheduleB
    \/ ConsolidateScheduleD
    \/ ConsolidateScheduleE
    \/ ConsolidateScheduleF

SpecConsolidate == InitCons /\ [][NextCons]_vars


(***************************************************************************)
(* SpecNoise: consolidate_schedule_b over rows with page furniture.        *)
(***************************************************************************)
InitNoise ==
    /\ schedule = "B"
    /\ segmented \in NoiseInputs
    /\ consolidated = NotReturned
    /\ IdleAmount
    /\ IdlePage
    /\ IdleBatch
    /\ IdleAz
    /\ IdlePofd
    /\ IdleExcel
    /\ IdleCsv
    /\ IdleColumn
    /\ IdleExtract
    /\ IdleDocument

NextNoise == ConsolidateScheduleB

SpecNoise == InitNoise /\ [][NextNoise]_vars
(***************************************************************************)
(* One page of the loop of extract_schedule_*_from_pdf: the header         *)
(* detector runs on the page's words; the page is passed over when no      *)
(* header has been seen so far, and is segmented otherwise with the        *)
(* column starts and header top of the latest header.                      *)
(***************************************************************************)
InitPage ==
    /\ page_schedule \in ScheduleKeys
    /\ page_words \in PageInputs(page_schedule)
    /\ carried \in {NotCollecting, CollectingFrom(page_schedule)}
    /\ header_info = HeaderPending
    /\ page_result = PagePending
    /\ IdleAmount
    /\ IdleCons
    /\ IdleBatch
    /\ IdleAz
    /\ IdlePofd
    /\ IdleExcel
    /\ IdleCsv
    /\ IdleColumn
    /\ IdleExtract
    /\ IdleDocument

\* header_info = find_schedule_*_header(page_words)
FindHeader(s, result) ==
    /\ page_schedule = s
    /\ header_info = HeaderPending
    /\ header_info' = result
    /\ UNCHANGED <<page_schedule, page_words, carried, page_result, amountVars, consVars, batchVars, azVars, pofdVars, excelVars, csvVars, columnVars, extractVars, docVars>>

FindScheduleAHeader == FindHeader("A", find_schedule_a_header(page_words))

FindScheduleBHeader == FindHeader("B", find_schedule_b_header(page_words))

FindScheduleCHeader == FindHeader("C", find_schedule_c_header(page_words))

FindScheduleDHeader == FindHeader("D", find_schedule_d_header(page_words))

FindScheduleEHeader == FindHeader("E", find_schedule_e_header(page_words))

FindScheduleFHeader == FindHeader("F", find_schedule_f_header(page_words))

\* `elif not collecting: continue`
ContinueNotCollecting ==
    /\ header_info.kind = "none"
    /\ ~carried.collecting
    /\ page_result = PagePending
    /\ page_result' = PageSkipped
    /\ UNCHANGED <<page_schedule, page_words, carried, header_info, amountVars, consVars, batchVars, azVars, pofdVars, excelVars, csvVars, columnVars, extractVars, docVars>>

\* the column starts the page is segmented with
ColumnStartsInForce ==
    IF header_info.kind = "found" THEN header_info.column_starts ELSE carried.column_starts

HeaderTopInForce ==
    IF header_info.kind = "found" THEN header_info.top ELSE carried.header_top[1]

\* page_rows, reached_next_schedule = parse_schedule_*_page(page_words, column_starts, header_top)
ParsePage(s, result) ==
    /\ page_schedule = s
    /\ header_info.kind = "found" \/ (header_info.kind = "none" /\ carried.collecting)
    /\ page_result = PagePending
    /\ page_result' = [status |-> "parsed", rows |-> result.rows, reached |-> result.reached]
    /\ UNCHANGED <<page_schedule, page_words, carried, header_info, amountVars, consVars, batchVars, azVars, pofdVars, excelVars, csvVars, columnVars, extractVars, docVars>>

ParseScheduleAPage ==
    ParsePage("A", parse_schedule_a_page(page_words, ColumnStartsInForce, HeaderTopInForce))

ParseScheduleBPage ==
    ParsePage("B", parse_schedule_b_page(page_words, ColumnStartsInForce, HeaderTopInForce))

ParseScheduleCPage ==
    ParsePage("C", parse_schedule_c_page(page_words, ColumnStartsInForce, HeaderTopInForce))

ParseScheduleDPage ==
    ParsePage("D", parse_schedule_d_page(page_words, ColumnStartsInForce, HeaderTopInForce))

ParseScheduleEPage ==
    ParsePage("E", parse_schedule_e_page(page_words, ColumnStartsInForce, HeaderTopInForce))

ParseScheduleFPage ==
    ParsePage("F", parse_schedule_f_page(page_words, ColumnStartsInForce, HeaderTopInForce))

NextPage ==
    \/ FindScheduleAHeader
    \/ FindScheduleBHeader
    \/ FindScheduleCHeader
    \/ FindScheduleDHeader
    \/ FindScheduleEHeader
    \/ FindScheduleFHeader
    \/ ContinueNotCollecting
    \/ ParseScheduleAPage
    \/ ParseScheduleBPage
    \/ ParseScheduleCPage
    \/ ParseScheduleDPage
    \/ ParseScheduleEPage
    \/ ParseScheduleFPage

SpecPage == InitPage /\ [][NextPage]_vars


(***************************************************************************)
(* SpecSegment: a page of body words that continues a schedule whose       *)
(* header an earlier page has shown.                                       *)
(***************************************************************************)
InitSegment ==
    /\ page_schedule \in ScheduleKeys
    /\ page_words \in SegmentInputs(page_schedule)
    /\ carried = CollectingFrom(page_schedule)
    /\ header_info = HeaderPending
    /\ page_result = PagePending
    /\ IdleAmount
    /\ IdleCons
    /\ IdleBatch
    /\ IdleAz
    /\ IdlePofd
    /\ IdleExcel
    /\ IdleCsv
    /\ IdleColumn
    /\ IdleExtract
    /\ IdleDocument

NextSegment ==
    \/ FindScheduleAHeader
    \/ FindScheduleBHeader
    \/ FindScheduleCHeader
    \/ FindScheduleDHeader
    \/ FindScheduleEHeader
    \/ FindScheduleFHeader
    \/ ParseScheduleAPage
    \/ ParseScheduleBPage
    \/ ParseScheduleCPage
    \/ ParseScheduleDPage
    \/ ParseScheduleEPage
    \/ ParseScheduleFPage

SpecSegment == InitSegment /\ [][NextSegment]_vars

(***************************************************************************)
(* SpecRoute: a page of Schedule A that continues the schedule.            *)
(***************************************************************************)
InitRoute ==
    /\ page_schedule = "A"
    /\ page_words \in RouteInputs
    /\ carried = CollectingFrom("A")
    /\ header_info = HeaderPending
    /\ page_result = PagePending
    /\ IdleAmount
    /\ IdleCons
    /\ IdleBatch
    /\ IdleAz
    /\ IdlePofd
    /\ IdleExcel
    /\ IdleCsv
    /\ IdleColumn
    /\ IdleExtract
    /\ IdleDocument

NextRoute ==
    \/ FindScheduleAHeader
    \/ ParseScheduleAPage

SpecRoute == InitRoute /\ [][NextRoute]_vars

(***************************************************************************)
(* SpecExtract: extract_schedule_*_from_pdf over the pages of one PDF, one *)
(* step per page of the loop and one for the return.                       *)
(***************************************************************************)
InitExtract ==
    /\ ex_schedule \in ScheduleKeys
    /\ ex_pages \in PdfInputs(ex_schedule)
    /\ ex_idx = 1
    /\ ex_carried = NotCollecting
    /\ ex_rows = <<>>
    /\ ex_trace = <<>>
    /\ ex_pc = "loop"
    /\ ex_out = <<>>
    /\ IdleAmount
    /\ IdleCons
    /\ IdlePage
    /\ IdleBatch
    /\ IdleAz
    /\ IdlePofd
    /\ IdleExcel
    /\ IdleCsv
    /\ IdleColumn
    /\ IdleDocument

ExtractFrame ==
    UNCHANGED <<ex_schedule, ex_pages, amountVars, consVars, pageVars, batchVars, azVars,
                pofdVars, excelVars, csvVars, columnVars, docVars>>

\* the page passed over: `elif not collecting: continue`
PageSkippedStep(header) ==
    /\ ex_trace' = Append(ex_trace, [header |-> FALSE, outcome |-> "skipped",
                                     rows |-> <<>>, reached |-> FALSE])
    /\ ex_idx' = ex_idx + 1
    /\ UNCHANGED <<ex_carried, ex_rows, ex_pc, ex_out>>

\* the page segmented: rows.extend(page_rows); if reached_next: break
PageSegmentedStep(header, state, result) ==
    /\ ex_carried' = state
    /\ ex_rows' = ex_rows \o result.rows
    /\ ex_trace' = Append(ex_trace, [header |-> header.kind = "found",
                                     outcome |-> "segmented",
                                     rows |-> result.rows, reached |-> result.reached])
    /\ ex_idx' = ex_idx + 1
    /\ ex_pc' = AfterPage(result.reached)
    /\ UNCHANGED ex_out

\* one pass of `for page in pdf.pages`
ExtractPageWith(s, header, state) ==
    /\ ex_schedule = s
    /\ ex_pc = "loop"
    /\ ex_idx <= Len(ex_pages)
    /\ IF header.kind = "raise"
       THEN ex_pc' = "raised" /\ UNCHANGED <<ex_idx, ex_carried, ex_rows, ex_trace, ex_out>>
       ELSE IF ~state.collecting
       THEN PageSkippedStep(header)
       ELSE PageSegmentedStep(header, state,
                ParsePageOf(s, ex_pages[ex_idx], state.column_starts, state.header_top[1]))
    /\ ExtractFrame

ExtractPage(s) ==
    ExtractPageWith(s, FindHeaderOf(s, ex_pages[ex_idx]),
                    CarriedAfterHeader(ex_carried, FindHeaderOf(s, ex_pages[ex_idx])))

\* the statement after the loop
ExtractReturn(s) ==
    /\ ex_schedule = s
    /\ ex_pc = "broke" \/ (ex_pc = "loop" /\ ex_idx > Len(ex_pages))
    /\ ex_pc' = "returned"
    /\ ex_out' = ReturnedRowsOf(s, ex_rows)
    /\ UNCHANGED <<ex_idx, ex_carried, ex_rows, ex_trace>>
    /\ ExtractFrame

ExtractScheduleAPage == ExtractPage("A")

ExtractScheduleBPage == ExtractPage("B")

ExtractScheduleCPage == ExtractPage("C")

ExtractScheduleDPage == ExtractPage("D")

ExtractScheduleEPage == ExtractPage("E")

ExtractScheduleFPage == ExtractPage("F")

ExtractScheduleAReturn == ExtractReturn("A")

ExtractScheduleBReturn == ExtractReturn("B")

ExtractScheduleCReturn == ExtractReturn("C")

ExtractScheduleDReturn == ExtractReturn("D")

ExtractScheduleEReturn == ExtractReturn("E")

ExtractScheduleFReturn == ExtractReturn("F")

NextExtract ==
    \/ ExtractScheduleAPage
    \/ ExtractScheduleBPage
    \/ ExtractScheduleCPage
    \/ ExtractScheduleDPage
    \/ ExtractScheduleEPage
    \/ ExtractScheduleFPage
    \/ ExtractScheduleAReturn
    \/ ExtractScheduleBReturn
    \/ ExtractScheduleCReturn
    \/ ExtractScheduleDReturn
    \/ ExtractScheduleEReturn
    \/ ExtractScheduleFReturn

SpecExtract == InitExtract /\ [][NextExtract]_vars

(***************************************************************************)
(* SpecConserve: a continuation page of Schedule C, D, E or F that holds   *)
(* body words, skipped words and the marker of the next schedule.          *)
(***************************************************************************)
InitConserve ==
    /\ page_schedule \in ConserveSchedules
    /\ page_words \in ConserveInputs(page_schedule)
    /\ carried = CollectingFrom(page_schedule)
    /\ header_info = HeaderPending
    /\ page_result = PagePending
    /\ IdleAmount
    /\ IdleCons
    /\ IdleBatch
    /\ IdleAz
    /\ IdlePofd
    /\ IdleExcel
    /\ IdleCsv
    /\ IdleColumn
    /\ IdleExtract
    /\ IdleDocument

NextConserve ==
    \/ FindScheduleCHeader
    \/ FindScheduleDHeader
    \/ FindScheduleEHeader
    \/ FindScheduleFHeader
    \/ ParseScheduleCPage
    \/ ParseScheduleDPage
    \/ ParseScheduleEPage
    \/ ParseScheduleFPage

SpecConserve == InitConserve /\ [][NextConserve]_vars
InitBatch ==
    /\ entry \in DirectoryEntryPoints \cup SinglePdfEntryPoints
    /\ source \in (IF entry \in DirectoryEntryPoints THEN DirectorySources ELSE SinglePdfSources)
    /\ prior_outputs \in BOOLEAN
    /\ pc = "start"
    /\ pdf_index = 1
    /\ fs_ops = <<>>
    /\ produced = {}
    /\ IdleAmount
    /\ IdleCons
    /\ IdlePage
    /\ IdleAz
    /\ IdlePofd
    /\ IdleExcel
    /\ IdleCsv
    /\ IdleColumn
    /\ IdleExtract
    /\ IdleDocument

BatchFrame == UNCHANGED <<entry, source, prior_outputs, amountVars, consVars, pageVars, azVars, pofdVars, excelVars, csvVars, columnVars, extractVars, docVars>>

\* process_filings, lines 457-462
ProcessFilingsCheck ==
    /\ entry = "process_filings"
    /\ pc = "start"
    /\ pc' = IF ~source.exists \/ NoPdfFiles(Glob(source)) THEN "raised" ELSE "loop"
    /\ UNCHANGED <<pdf_index, fs_ops, produced>>
    /\ BatchFrame

\* process_filings, lines 467-474: one PDF read; an exception leaves the function
ProcessFilingsPdf ==
    /\ entry = "process_filings"
    /\ pc = "loop"
    /\ pdf_index <= Len(Glob(source))
    /\ IF Glob(source)[pdf_index] = "unreadable"
       THEN pc' = "raised" /\ UNCHANGED pdf_index
       ELSE pc' = "loop" /\ pdf_index' = pdf_index + 1
    /\ UNCHANGED <<fs_ops, produced>>
    /\ BatchFrame

\* process_filings, lines 476-485: the one workbook of the whole directory
ProcessFilingsWrite ==
    /\ entry = "process_filings"
    /\ pc = "loop"
    /\ pdf_index > Len(Glob(source))
    /\ fs_ops' = fs_ops \o AlaskaWorkbookOps
    /\ produced' = 1..Len(Glob(source))
    /\ pc' = "returned"
    /\ UNCHANGED pdf_index
    /\ BatchFrame

\* `if not pdf_path.exists(): raise FileNotFoundError` of either process_single_pdf
SinglePdfCheck(e) ==
    /\ entry = e
    /\ pc = "start"
    /\ pc' = IF ~source.exists THEN "raised" ELSE "loop"
    /\ UNCHANGED <<pdf_index, fs_ops, produced>>
    /\ BatchFrame

\* the PDF read and parsed, then the workbook written
SinglePdfProcess(e, workbook_ops) ==
    /\ entry = e
    /\ pc = "loop"
    /\ IF source.files[1] = "unreadable"
       THEN pc' = "raised" /\ UNCHANGED <<fs_ops, produced>>
       ELSE pc' = "returned" /\ fs_ops' = fs_ops \o workbook_ops /\ produced' = {1}
    /\ UNCHANGED pdf_index
    /\ BatchFrame

AlaskaSingleCheck == SinglePdfCheck("alaska_single")

AlaskaSingleProcess == SinglePdfProcess("alaska_single", AlaskaWorkbookOps)

DisclosureSingleCheck == SinglePdfCheck("disclosure_single")

DisclosureSingleProcess == SinglePdfProcess("disclosure_single", DisclosureWorkbookOps)

\* process_reports.main, lines 141-148: parser.error exits
MainCheck ==
    /\ entry = "process_reports"
    /\ pc = "start"
    /\ pc' = IF ~source.exists \/ ~source.is_dir \/ NoPdfFiles(Glob(source))
             THEN "raised" ELSE "loop"
    /\ UNCHANGED <<pdf_index, fs_ops, produced>>
    /\ BatchFrame

\* process_reports.main, lines 151-159: process_pdf(pdf, ...) is not guarded
MainProcessPdf ==
    /\ entry = "process_reports"
    /\ pc = "loop"
    /\ pdf_index <= Len(Glob(source))
    /\ IF Glob(source)[pdf_index] = "unreadable"
       THEN /\ fs_ops' = fs_ops \o ProcessPdfPrepare(pdf_index, prior_outputs)
            /\ pc' = "raised"
            /\ UNCHANGED <<pdf_index, produced>>
       ELSE /\ fs_ops' = fs_ops \o ProcessPdfPrepare(pdf_index, prior_outputs)
                                \o ProcessPdfOutputs(pdf_index)
            /\ produced' = produced \cup {pdf_index}
            /\ pdf_index' = pdf_index + 1
            /\ pc' = "loop"
    /\ BatchFrame

\* process_reports.main, lines 167-174
MainReturn ==
    /\ entry = "process_reports"
    /\ pc = "loop"
    /\ pdf_index > Len(Glob(source))
    /\ pc' = "returned"
    /\ UNCHANGED <<pdf_index, fs_ops, produced>>
    /\ BatchFrame

NextBatch ==
    \/ ProcessFilingsCheck
    \/ ProcessFilingsPdf
    \/ ProcessFilingsWrite
    \/ AlaskaSingleCheck
    \/ AlaskaSingleProcess
    \/ DisclosureSingleCheck
    \/ DisclosureSingleProcess
    \/ MainCheck
    \/ MainProcessPdf
    \/ MainReturn

SpecBatch == InitBatch /\ [][NextBatch]_vars


(***************************************************************************)
(* SpecAz: one AZReportParser over a report, one parse_* method called.    *)
(***************************************************************************)
InitAz ==
    /\ az_call \in AzCalls
    /\ az_pages \in AzReports(az_call)
    /\ az_entries = AzPending
    /\ IdleAmount
    /\ IdleCons
    /\ IdlePage
    /\ IdleBatch
    /\ IdlePofd
    /\ IdleExcel
    /\ IdleCsv
    /\ IdleColumn
    /\ IdleExtract
    /\ IdleDocument

AzFrame == UNCHANGED <<az_call, az_pages, amountVars, consVars, pageVars, batchVars, pofdVars, excelVars, csvVars, columnVars, extractVars, docVars>>

\* AZReportParser.parse_contributions, lines 340-364
ParseContributions ==
    /\ az_call = "parse_contributions"
    /\ az_entries = AzPending
    /\ az_entries' = AzReturned(parse_contributions(az_pages))
    /\ AzFrame

\* AZReportParser.parse_operating_expenses, lines 419-427
ParseOperatingExpenses ==
    /\ az_call = "parse_operating_expenses"
    /\ az_entries = AzPending
    /\ az_entries' = AzReturned(parse_operating_expenses(az_pages))
    /\ AzFrame

\* AZReportParser.parse_other_receipts, lines 429-436
ParseOtherReceipts ==
    /\ az_call = "parse_other_receipts"
    /\ az_entries = AzPending
    /\ az_entries' = AzReturned(parse_other_receipts(az_pages))
    /\ AzFrame

NextAz == ParseContributions \/ ParseOperatingExpenses \/ ParseOtherReceipts

SpecAz == InitAz /\ [][NextAz]_vars

(***************************************************************************)
(* SpecCollect: one call of AZReportParser._collect_schedule_lines.        *)
(***************************************************************************)
InitCollect ==
    /\ az_call \in {CollectCall(marker) : marker \in RequestedMarkers}
    /\ az_pages \in CollectReports(az_call.marker)
    /\ az_entries = AzPending
    /\ IdleAmount
    /\ IdleCons
    /\ IdlePage
    /\ IdleBatch
    /\ IdlePofd
    /\ IdleExcel
    /\ IdleCsv
    /\ IdleColumn
    /\ IdleExtract
    /\ IdleDocument

\* AZReportParser._collect_schedule_lines, lines 303-338
CollectScheduleLines ==
    /\ az_entries = AzPending
    /\ az_entries' = AzReturned(_collect_schedule_lines(az_pages, az_call.marker))
    /\ AzFrame

NextCollect == CollectScheduleLines

SpecCollect == InitCollect /\ [][NextCollect]_vars

(***************************************************************************)
(* SpecPofd: gather_schedule_rows over the tables of one filing.           *)
(***************************************************************************)
InitPofd ==
    /\ pofd_tables \in UNION {[1..k -> PofdTables] : k \in 0..MaxTables}
    /\ pofd_metadata \in PofdMetadata
    /\ pofd_rows = PofdPending
    /\ IdleAmount
    /\ IdleCons
    /\ IdlePage
    /\ IdleBatch
    /\ IdleAz
    /\ IdleExcel
    /\ IdleCsv
    /\ IdleColumn
    /\ IdleExtract
    /\ IdleDocument

\* gather_schedule_rows, lines 223-315
GatherScheduleRows ==
    /\ pofd_rows = PofdPending
    /\ pofd_rows' = PofdReturned(gather_schedule_rows(pofd_tables, pofd_metadata))
    /\ UNCHANGED <<pofd_tables, pofd_metadata,
                   amountVars, consVars, pageVars, batchVars, azVars, excelVars,
                   csvVars, columnVars, extractVars, docVars>>

NextPofd == GatherScheduleRows

SpecPofd == InitPofd /\ [][NextPofd]_vars

(***************************************************************************)
(* SpecExcel: write_excel on the rows and notes of one disclosure.         *)
(***************************************************************************)
InitExcel ==
    /\ xl_rows \in ScheduleRowInputs
    /\ xl_notes \in ScheduleNoteInputs
    /\ xl_sheets = ExcelPending
    /\ IdleAmount
    /\ IdleCons
    /\ IdlePage
    /\ IdleBatch
    /\ IdleAz
    /\ IdlePofd
    /\ IdleCsv
    /\ IdleColumn
    /\ IdleExtract
    /\ IdleDocument

\* write_excel, lines 1897-1914
WriteExcel ==
    /\ xl_sheets = ExcelPending
    /\ xl_sheets' = ExcelWritten(write_excel(xl_rows, xl_notes))
    /\ UNCHANGED <<xl_rows, xl_notes,
                   amountVars, consVars, pageVars, batchVars, azVars, pofdVars,
                   csvVars, columnVars, extractVars, docVars>>

NextExcel == WriteExcel

SpecExcel == InitExcel /\ [][NextExcel]_vars

(***************************************************************************)
(* SpecCsv: add_csv_to_workbook called on one workbook for file after file.*)
(***************************************************************************)
InitCsv ==
    /\ sheetnames = <<>>
    /\ IdleAmount
    /\ IdleCons
    /\ IdlePage
    /\ IdleBatch
    /\ IdleAz
    /\ IdlePofd
    /\ IdleExcel
    /\ IdleColumn
    /\ IdleExtract
    /\ IdleDocument

\* add_csv_to_workbook, lines 41-57
AddCsvToWorkbook ==
    /\ Len(sheetnames) < MaxSheets
    /\ \E stem \in CsvStems :
          sheetnames' = Append(sheetnames, NewSheetTitle(stem, sheetnames))
    /\ UNCHANGED <<amountVars, consVars, pageVars, batchVars, azVars, pofdVars, excelVars, columnVars, extractVars, docVars>>

NextCsv == AddCsvToWorkbook

SpecCsv == InitCsv /\ [][NextCsv]_vars

(***************************************************************************)
(* SpecColumn: one call of assign_schedule_*_column.                       *)
(***************************************************************************)
InitColumn ==
    /\ col_schedule \in ScheduleKeys
    /\ col_x0 \in X0Positions
    /\ col_starts \in ColumnStartsInputs(col_schedule)
    /\ col_assigned = 0
    /\ IdleAmount
    /\ IdleCons
    /\ IdlePage
    /\ IdleBatch
    /\ IdleAz
    /\ IdlePofd
    /\ IdleExcel
    /\ IdleCsv
    /\ IdleExtract
    /\ IdleDocument

AssignColumn(s, column) ==
    /\ col_schedule = s
    /\ col_assigned = 0
    /\ col_assigned' = column
    /\ UNCHANGED <<col_schedule, col_x0, col_starts, amountVars, consVars, pageVars,
                   batchVars, azVars, pofdVars, excelVars, csvVars, extractVars, docVars>>

AssignScheduleAColumn == AssignColumn("A", assign_schedule_a_column(col_x0, col_starts))

AssignScheduleBColumn == AssignColumn("B", assign_schedule_b_column(col_x0, col_starts))

AssignScheduleCColumn == AssignColumn("C", assign_schedule_c_column(col_x0, col_starts))

AssignScheduleDColumn == AssignColumn("D", assign_schedule_d_column(col_x0, col_starts))

AssignScheduleEColumn == AssignColumn("E", assign_schedule_e_column(col_x0, col_starts))

AssignScheduleFColumn == AssignColumn("F", assign_schedule_f_column(col_x0, col_starts))

NextColumn ==
    \/ AssignScheduleAColumn
    \/ AssignScheduleBColumn
    \/ AssignScheduleCColumn
    \/ AssignScheduleDColumn
    \/ AssignScheduleEColumn
    \/ AssignScheduleFColumn

SpecColumn == InitColumn /\ [][NextColumn]_vars

(***************************************************************************)
(* SpecDocument: DocumentParser(lines).parse(), one iteration of the main  *)
(* loop per step.                                                          *)
(***************************************************************************)
InitDocument ==
    /\ dp_lines \in DocumentInputs
    /\ dp_idx = 0
    /\ dp_page = 0
    /\ dp_schedule = ""
    /\ dp_part = ""
    /\ dp_results = NoResults
    /\ dp_steps = 0
    /\ IdleAmount
    /\ IdleCons
    /\ IdlePage
    /\ IdleBatch
    /\ IdleAz
    /\ IdlePofd
    /\ IdleExcel
    /\ IdleCsv
    /\ IdleColumn
    /\ IdleExtract

\* one more iteration of `while self.idx < len(self.lines)`
DocFrame ==
    /\ dp_idx < Len(dp_lines)
    /\ dp_steps' = dp_steps + 1
    /\ UNCHANGED <<dp_lines, amountVars, consVars, pageVars, batchVars, azVars, pofdVars, excelVars, csvVars, columnVars, extractVars>>

\* line = clean(self.lines[self.idx])
CurrentLine == LineAt(dp_lines, dp_idx)

IsHeaderLine(line) ==
    StartsWith(line, "PAGE ") \/ StartsWith(line, "SCHEDULE ") \/ StartsWith(line, "PART ")

\* if not line: self.idx += 1
ParseBlankLine ==
    /\ CurrentLine = ""
    /\ dp_idx' = NextLine(dp_idx)
    /\ UNCHANGED <<dp_page, dp_schedule, dp_part, dp_results>>
    /\ DocFrame

ParsePageHeader ==
    /\ StartsWith(CurrentLine, "PAGE ")
    /\ dp_page' = PageNumber(CurrentLine)
    /\ dp_idx' = NextLine(dp_idx)
    /\ UNCHANGED <<dp_schedule, dp_part, dp_results>>
    /\ DocFrame

ParseScheduleHeader ==
    /\ StartsWith(CurrentLine, "SCHEDULE ")
    /\ dp_schedule' = CurrentLine
    /\ dp_idx' = NextLine(dp_idx)
    /\ UNCHANGED <<dp_page, dp_part, dp_results>>
    /\ DocFrame

ParsePartHeader ==
    /\ StartsWith(CurrentLine, "PART ")
    /\ dp_part' = PartToken(CurrentLine)
    /\ dp_idx' = NextLine(dp_idx)
    /\ UNCHANGED <<dp_page, dp_schedule, dp_results>>
    /\ DocFrame

\* entry, new_idx = self._parse_...(); self.results[key].append(entry); self.idx = new_idx
ParseEntry(key, parsed) ==
    /\ CurrentLine # ""
    /\ ~IsHeaderLine(CurrentLine)
    /\ EntryBranch(dp_schedule, dp_part, CurrentLine) = key
    /\ dp_results' = [dp_results EXCEPT ![key] = Append(@, parsed.entry)]
    /\ dp_idx' = parsed.idx
    /\ UNCHANGED <<dp_page, dp_schedule, dp_part>>
    /\ DocFrame

ParseScheduleIPartA ==
    ParseEntry("schedule_i_part_a", parse_schedule_i_part_a(dp_lines, dp_idx, dp_page))

ParseScheduleIPartB ==
    ParseEntry("schedule_i_part_b", parse_schedule_i_part_b(dp_lines, dp_idx, dp_page))

ParseScheduleIPartC ==
    ParseEntry("schedule_i_part_c", parse_schedule_i_part_c(dp_lines, dp_idx, dp_page))

ParseScheduleIPartD ==
    ParseEntry("schedule_i_part_d", parse_schedule_i_part_d(dp_lines, dp_idx, dp_page))

ParseScheduleIPartE ==
    ParseEntry("schedule_i_part_e", parse_schedule_i_part_e(dp_lines, dp_idx, dp_page))

ParseScheduleIIPartG ==
    ParseEntry("schedule_ii_part_g", parse_schedule_ii_part_g(dp_lines, dp_idx, dp_page))

ParseScheduleIII ==
    ParseEntry("schedule_iii", parse_schedule_iii(dp_lines, dp_idx, dp_page))

\* the last statement of the loop body: self.idx += 1
ParseOtherLine ==
    /\ CurrentLine # ""
    /\ ~IsHeaderLine(CurrentLine)
    /\ EntryBranch(dp_schedule, dp_part, CurrentLine) = ""
    /\ dp_idx' = NextLine(dp_idx)
    /\ UNCHANGED <<dp_page, dp_schedule, dp_part, dp_results>>
    /\ DocFrame

NextDocument ==
    \/ ParseBlankLine
    \/ ParsePageHeader
    \/ ParseScheduleHeader
    \/ ParsePartHeader
    \/ ParseScheduleIPartA
    \/ ParseScheduleIPartB
    \/ ParseScheduleIPartC
    \/ ParseScheduleIPartD
    \/ ParseScheduleIPartE
    \/ ParseScheduleIIPartG
    \/ ParseScheduleIII
    \/ ParseOtherLine

SpecDocument == InitDocument /\ [][NextDocument]_vars
\* the number parts of the argument, left to right
PartNumbers(parts) == SelectSeq(parts, LAMBDA p : p.n >= 0)

ParsedText == bounds.returned /\ amount.kind = "text"

\* C1: an amount text that is "$X" alone parses to min = max = X.
C1_DollarAloneIsExact ==
    (ParsedText /\ Len(amount.parts) = 1 /\ amount.parts[1].n >= 0
         /\ amount.parts[1].s = "$")
        => (bounds.min = Some(amount.parts[1].n) /\ bounds.max = Some(amount.parts[1].n))

C1_Witness ==
    /\ ParsedText
    /\ amount.text = "$1,000"
    /\ bounds.min = Some(1000)
    /\ bounds.max = Some(1000)

\* part i is the phrase "not more than " and part i + 1 is "$X"
NotMoreThanAt(i) ==
    /\ i \in 1..(Len(amount.parts) - 1)
    /\ amount.parts[i].n = -1
    /\ Lower(amount.parts[i].s) = "not more than "
    /\ amount.parts[i + 1].n >= 0
    /\ amount.parts[i + 1].s = "$"

\* part i is "$X" and part i + 1 is the phrase " or more"
OrMoreAt(i) ==
    /\ i \in 1..(Len(amount.parts) - 1)
    /\ amount.parts[i].n >= 0
    /\ amount.parts[i].s = "$"
    /\ amount.parts[i + 1].n = -1
    /\ Lower(amount.parts[i + 1].s) = " or more"

\* no number part follows part i
LastNumberAt(i) == \A j \in (i + 1)..Len(amount.parts) : amount.parts[j].n = -1

\* C2 (as stated): a text containing "not more than $X" parses to max = X, and to
\* min = None unless the text holds a second number.
C2_NotMoreThanSetsMax ==
    ParsedText =>
        \A i \in 1..Len(amount.parts) :
            NotMoreThanAt(i) =>
                /\ bounds.max = Some(amount.parts[i + 1].n)
                /\ (Len(PartNumbers(amount.parts)) = 1 => bounds.min = None)

\* C2 (amended): a text containing "not more than $X" in which X is the last number
\* and which does not contain "or more" parses to max = X; min is None when X is
\* moreover the only number and the text has neither a range connector ("-",
\* "between", "from" with "to"/"through") nor a lower-bound phrase besides.
C2_NotMoreThanLastNumber ==
    ParsedText =>
        \A i \in 1..Len(amount.parts) :
            (NotMoreThanAt(i) /\ LastNumberAt(i + 1)
                 /\ ~Contains(Lower(amount.text), "or more")) =>
                /\ bounds.max = Some(amount.parts[i + 1].n)
                /\ ((Len(PartNumbers(amount.parts)) = 1
                        /\ ~HasRangeIndicator(amount.text, Lower(amount.text))
                        /\ ~HasLowerIndicator(SanitizedLower(Lower(amount.text))))
                    => bounds.min = None)

C2_Witness ==
    /\ ParsedText
    /\ amount.text = "$5Not more than $1,000"
    /\ bounds.max = Some(1000)
    /\ bounds.min = Some(5)

\* C3 (as stated): a text containing "$X or more" parses to min = X, max = None,
\* whatever else it contains.
C3_OrMoreSetsMin ==
    ParsedText =>
        \A i \in 1..Len(amount.parts) :
            OrMoreAt(i) => (bounds.min = Some(amount.parts[i].n) /\ bounds.max = None)

\* C3 (amended): a text containing "$X or more" in which X is the last number parses
\* to min = X, max = None, whatever else it contains.
C3_OrMoreLastNumber ==
    ParsedText =>
        \A i \in 1..Len(amount.parts) :
            (OrMoreAt(i) /\ LastNumberAt(i)) =>
                (bounds.min = Some(amount.parts[i].n) /\ bounds.max = None)

C3_Witness ==
    /\ ParsedText
    /\ amount.text = "Less than $20 or more"
    /\ bounds.min = Some(20)
    /\ bounds.max = None


\* the numbers of the parsed text, left to right
TextNumbers == [i \in 1..Len(PartNumbers(amount.parts)) |-> PartNumbers(amount.parts)[i].n]

FirstNumber == TextNumbers[1]

LastNumber == TextNumbers[Len(TextNumbers)]

\* the text holds "-", "between", or "from" with "to" or "through"
HasRangeConnector ==
    \/ Contains(amount.text, "-")
    \/ Contains(Lower(amount.text), "between")
    \/ /\ Contains(Lower(amount.text), "from")
       /\ Contains(Lower(amount.text), "to") \/ Contains(Lower(amount.text), "through")

\* the text holds one of the upper-bound phrases
HasUpperPhrase ==
    \E p \in {"not more than", "no more than", "or less", "less than or equal",
              "less than", "up to", "at most"} : Contains(Lower(amount.text), p)

HasOrMore == Contains(Lower(amount.text), "or more")

\* C21: the rules of parse_amount_bounds are applied in a fixed order, the "or more"
\* rule last: a text with "or more" and a number parses to (last number, None) even
\* with a range connector or an upper-bound phrase in it, and a text with a range
\* connector and an upper-bound phrase but no "or more" parses to min = the first
\* number and max = the last.
C21_OrMoreOverridesRangeAndUpper ==
    (ParsedText /\ TextNumbers # <<>>) =>
        /\ HasOrMore => (bounds.min = Some(LastNumber) /\ bounds.max = None)
        /\ (HasRangeConnector /\ HasUpperPhrase /\ ~HasOrMore) =>
               (bounds.min = Some(FirstNumber) /\ bounds.max = Some(LastNumber))

\* a text with a range connector, an upper-bound phrase and "or more" parsed to
\* (last number, None)
C21_Witness ==
    /\ ParsedText
    /\ amount.text = " - up to $20 or more"
    /\ bounds.min = Some(20)
    /\ bounds.max = None

\* C24: parse_amount_bounds never returns an inverted range: whenever both bounds
\* are set, min <= max.
C24_BoundsNeverInverted ==
    (bounds.returned /\ bounds.min # None /\ bounds.max # None) =>
        bounds.min[1] <= bounds.max[1]

\* C25: parse_amount_bounds returns (None, None) only for inputs without a number:
\* for a text with at least one digit run, min or max is set.
C25_NumberYieldsBound ==
    (ParsedText /\ TextNumbers # <<>>) => (bounds.min # None \/ bounds.max # None)
\* the input rows whose tag occurs in a cell, or in some cell of a row
CellTags(cell) == {i \in 1..Len(RowTagLetters) : Contains(cell, RowTag(i))}

RowTags(row) == UNION {CellTags(row[c]) : c \in 1..Len(row)}

\* the position of row i's tag in a cell that holds it
TagPosition(cell, i) == CHOOSE p \in 1..Len(cell) : Char(cell, p) = RowTag(i)

\* C4: consolidation preserves content: every non-empty cell text of every input row
\* appears within a cell of the output rows; no input cell is dropped.
C4_ConsolidationKeepsEveryCell ==
    consolidated.returned =>
        \A i \in 1..Len(segmented) : \A c \in 1..Len(segmented[i]) :
            segmented[i][c] # "" =>
                \E j \in 1..Len(consolidated.rows) : \E d \in 1..Len(consolidated.rows[j]) :
                    Contains(consolidated.rows[j][d], segmented[i][c])

\* C5: consolidation never reorders: the output records follow the order of the input
\* rows they were started by, a continuation row is merged into the nearest preceding
\* record only (the input rows found in an earlier output record all come before
\* those found in a later one), and within a cell merged texts keep the input order.
C5_ConsolidationKeepsOrder ==
    consolidated.returned =>
        /\ \A j, k \in 1..Len(consolidated.rows) :
               j < k => \A t \in RowTags(consolidated.rows[j]) :
                            \A u \in RowTags(consolidated.rows[k]) : t < u
        /\ \A j \in 1..Len(consolidated.rows) : \A c \in 1..Len(consolidated.rows[j]) :
               \A t, u \in CellTags(consolidated.rows[j][c]) :
                   t < u => TagPosition(consolidated.rows[j][c], t)
                                < TagPosition(consolidated.rows[j][c], u)

C5_Witness ==
    /\ consolidated.returned
    /\ schedule = "D"
    /\ Len(segmented) = 3
    /\ Len(consolidated.rows) = 2
    /\ RowTags(consolidated.rows[1]) = {1}
    /\ RowTags(consolidated.rows[2]) = {2, 3}


\* the input row of that number starts a record of consolidate_schedule_a:
\* its value cell holds a value token, or no row comes before it
StartsAssetRecord(i) ==
    \/ i = 1
    \/ ValueTokenSearch(segmented[i][3])

\* C18: consolidate_schedule_a starts a record at a row whose value cell holds a
\* recognizable value token or before which no row exists, and merges every other
\* row into the current record: the first input row is always part of the first
\* output record, and there are as many records as starting rows.
C18_FirstAssetRowBecomesRecord ==
    (consolidated.returned /\ schedule = "A" /\ segmented # <<>>) =>
        /\ Len(consolidated.rows) =
               Cardinality({i \in 1..Len(segmented) : StartsAssetRecord(i)})
        /\ 1 \in RowTags(consolidated.rows[1])

\* the owner, creditor or date cell of that input row is filled
HasLiabilityKey(i) ==
    segmented[i][1] # "" \/ segmented[i][2] # "" \/ segmented[i][3] # ""

\* the input rows that start a record of consolidate_schedule_d
LiabilityStarts == {i \in 1..Len(segmented) : i = 1 \/ HasLiabilityKey(i)}

\* the j-th smallest member of a set of numbers
RECURSIVE NthSmallest(_, _)
NthSmallest(S, j) == IF j = 1 THEN SetMin(S) ELSE NthSmallest(S \ {SetMin(S)}, j - 1)

\* the input rows of the j-th record: from its starting row up to the next one
LiabilitySpan(j) ==
    LET first == NthSmallest(LiabilityStarts, j)
        last == IF j < Cardinality(LiabilityStarts)
                THEN NthSmallest(LiabilityStarts, j + 1) - 1
                ELSE Len(segmented)
    IN  first..last

\* the filled cells of column c of the rows first..last, joined in order
RECURSIVE JoinedColumn(_, _, _, _)
JoinedColumn(c, first, last, sep) ==
    IF first > last THEN ""
    ELSE LET rest == JoinedColumn(c, first + 1, last, sep)
             cell == segmented[first][c]
         IN  IF cell = "" THEN rest
             ELSE IF rest = "" THEN cell
             ELSE cell \o sep \o rest

\* C19: consolidate_schedule_d starts a record exactly at the rows whose owner,
\* creditor or date cell is filled and at the first row; every other row is merged
\* into the record before it, its type joined with a newline and its amount with a
\* space; the number of records is the number of rows with owner, creditor or date,
\* plus one when the first row has none of them.
C19_LiabilityRecordsStartAtKeyRows ==
    (consolidated.returned /\ schedule = "D") =>
        /\ Len(consolidated.rows) =
               Cardinality({i \in 1..Len(segmented) : HasLiabilityKey(i)})
                   + (IF segmented # <<>> /\ ~HasLiabilityKey(1) THEN 1 ELSE 0)
        /\ \A j \in 1..Len(consolidated.rows) :
               LET span == LiabilitySpan(j)
                   first == SetMin(span)
                   last == SetMax(span)
               IN  /\ \A c \in 1..3 : consolidated.rows[j][c] = segmented[first][c]
                   /\ consolidated.rows[j][4] = JoinedColumn(4, first, last, "\n")
                   /\ consolidated.rows[j][5] = JoinedColumn(5, first, last, " ")

\* a first row without owner, creditor and date made a record of its own, and a
\* row with type and amount only, its amount a value token, was merged into the
\* record of the row before it
C19_Witness ==
    /\ consolidated.returned
    /\ schedule = "D"
    /\ Len(segmented) = 3
    /\ ~HasLiabilityKey(1)
    /\ HasLiabilityKey(2)
    /\ ~HasLiabilityKey(3)
    /\ ValueTokenSearch(segmented[3][5])
    /\ Len(consolidated.rows) = 2
    /\ Contains(consolidated.rows[2][4], "\n")
    /\ Contains(consolidated.rows[2][5], " ")

(***************************************************************************)
(* Claims about the noise filter of schedule B.                            *)
(***************************************************************************)

\* three letters in a row somewhere in the text
HasLetterRun(text) ==
    \E i \in 1..Len(text) : \E j \in i..Len(text) :
        j - i >= 2 /\ \A k \in i..j : IsAlpha(Char(text, k))

\* the text has content and none of it is a letter
PurelyPunctuationDigits(text) ==
    /\ Strip(text) # ""
    /\ \A k \in 1..Len(text) : ~IsAlpha(Char(text, k))

\* the records of consolidate_schedule_b before its filter
ScheduleBRecords == ConsolidateBLoop(segmented, 1, <<>>, <<>>)

\* C20: no row returned by consolidate_schedule_b has an asset column of
\* punctuation and digits only (with no alphabetic run of length 3 or more), and
\* every consolidated row whose asset column holds such an alphabetic run is
\* returned.
C20_NoiseRowsDroppedOthersKept ==
    (consolidated.returned /\ schedule = "B") =>
        /\ \A j \in 1..Len(consolidated.rows) :
               /\ ~PurelyPunctuationDigits(consolidated.rows[j][1])
               /\ consolidated.rows[j][1] # "" => HasLetterRun(consolidated.rows[j][1])
        /\ \A j \in 1..Len(ScheduleBRecords) :
               HasLetterRun(ScheduleBRecords[j][1]) =>
                   \E k \in 1..Len(consolidated.rows) :
                       consolidated.rows[k] = ScheduleBRecords[j]

\* a record with an asset of punctuation and digits was dropped and a record with
\* an alphabetic run was returned
C20_Witness ==
    /\ consolidated.returned
    /\ schedule = "B"
    /\ \E j \in 1..Len(ScheduleBRecords) :
           /\ PurelyPunctuationDigits(ScheduleBRecords[j][1])
           /\ \A k \in 1..Len(consolidated.rows) :
                  consolidated.rows[k] # ScheduleBRecords[j]
    /\ \E k \in 1..Len(consolidated.rows) : HasLetterRun(consolidated.rows[k][1])
StrictlyIncreasing(xs) == \A i \in 1..(Len(xs) - 1) : xs[i] < xs[i + 1]

\* C6: whenever a header detector returns a header descriptor, each column
\* start of the descriptor is greater than the one before it.
C6_ColumnStartsIncrease ==
    header_info.kind = "found" => StrictlyIncreasing(header_info.column_starts)

\* C7: the flag returned by a page parser is True exactly when a next-schedule
\* marker word is on the page, whatever the top of the marker word, 0 included.
C7_FlagIffMarkerFound ==
    page_result.status = "parsed" =>
        (page_result.reached <=> Markers(page_schedule, page_words) # {})

\* C8: a header detector returns a descriptor or None; it never raises.
C8_HeaderDetectionNeverRaises == header_info.kind # "raise"


(***************************************************************************)
(* Claims about the row segmenter.                                         *)
(***************************************************************************)

\* the tolerance the segmenter of the schedule is to work with
SegmenterTolerance == IF page_schedule \in {"A", "B"} THEN 12 ELSE 6

\* the word stands in the row: its text is one of the words of a cell
InRow(word, row) ==
    \E c \in 1..Len(row) : Contains(" " \o row[c] \o " ", " " \o word.text \o " ")

\* the positions in page_words of the words of row r
WordsOfRow(r) == {k \in 1..Len(page_words) : InRow(page_words[k], page_result.rows[r])}

\* the top of the first word of row r
AnchorOfRow(r) == SetMin({page_words[k].top : k \in WordsOfRow(r)})

PageSegmented == page_result.status = "parsed"

\* C17: the anchor of a row is the top of its first word and stays so while words
\* are appended, and a new row is started exactly when a word lies more than the
\* tolerance (12 for A and B, 6 for C to F) from the anchor: every word is in one
\* row, all words of a row lie within the tolerance of the row's first word, and
\* the anchor of each next row is more than the tolerance below the anchor of
\* the row before.
C17_RowsKeepTheirAnchor ==
    PageSegmented =>
        /\ \A k \in 1..Len(page_words) :
              Cardinality({r \in 1..Len(page_result.rows) : k \in WordsOfRow(r)}) = 1
        /\ \A r \in 1..Len(page_result.rows) : \A k \in WordsOfRow(r) :
              page_words[k].top - AnchorOfRow(r) <= SegmenterTolerance
        /\ \A r \in 1..(Len(page_result.rows) - 1) :
              AnchorOfRow(r + 1) - AnchorOfRow(r) > SegmenterTolerance

\* a page segmented into two rows, the first of which took in a word below its
\* anchor that lies nearer to the second row's anchor than the tolerance
C17_Witness ==
    /\ PageSegmented
    /\ Len(page_result.rows) >= 2
    /\ \E k \in WordsOfRow(1) :
          /\ page_words[k].top > AnchorOfRow(1)
          /\ AnchorOfRow(2) - page_words[k].top <= SegmenterTolerance

(***************************************************************************)
(* Claims about the re-routing of Schedule A words.                        *)
(***************************************************************************)

\* the words of a cell: the maximal runs without a blank
CellWords(cell) ==
    {SubSeq(cell, p[1], p[2]) :
        p \in {q \in (1..Len(cell)) \X (1..Len(cell)) :
                  /\ q[1] <= q[2]
                  /\ q[1] = 1 \/ Char(cell, q[1] - 1) = " "
                  /\ q[2] = Len(cell) \/ Char(cell, q[2] + 1) = " "
                  /\ \A k \in q[1]..q[2] : Char(cell, k) # " "}}

\* the x-position lies in the Owner column of the form
InOwnerRange(x0) ==
    x0 >= FormColumnStarts("A")[2] - 15 /\ x0 < FormColumnStarts("A")[3] - 5

ScheduleAPageParsed == page_schedule = "A" /\ page_result.status = "parsed"

\* C22: in parse_schedule_a_page a word in the Owner column range whose text is not
\* an owner token is put in the Asset column; every word of the Owner cell of a
\* segmented row satisfies is_owner_token and every word of the Value cell
\* satisfies is_value_token.
C22_OwnerAndValueCellsHoldTokens ==
    ScheduleAPageParsed =>
        /\ \A r \in 1..Len(page_result.rows) :
               /\ \A w \in CellWords(page_result.rows[r][2]) : is_owner_token(w)
               /\ \A w \in CellWords(page_result.rows[r][3]) : is_value_token(w)
        /\ \A k \in 1..Len(page_words) :
               (InOwnerRange(page_words[k].x0) /\ ~is_owner_token(page_words[k].text)) =>
                   \E r \in 1..Len(page_result.rows) :
                       page_words[k].text \in CellWords(page_result.rows[r][1])

\* two words at the Owner position of one line: the owner code stayed in the Owner
\* cell and the other word went to the Asset cell
C22_Witness ==
    /\ ScheduleAPageParsed
    /\ Len(page_words) = 2
    /\ \A k \in 1..2 : InOwnerRange(page_words[k].x0)
    /\ page_result.rows = << <<"Acme", "SP", "", "", "", "">> >>

(***************************************************************************)
(* Claims about the life of a schedule across the pages of a PDF.          *)
(***************************************************************************)

\* the pages on which the schedule's header is detected
HeaderPages ==
    {p \in 1..Len(ex_pages) : FindHeaderOf(ex_schedule, ex_pages[p]).kind = "found"}

\* the pages gone through that reported the boundary marker
ReportedPages == {p \in 1..Len(ex_trace) : ex_trace[p].reached}

RECURSIVE RowsOfTrace(_)
RowsOfTrace(trace) ==
    IF trace = <<>> THEN <<>> ELSE Head(trace).rows \o RowsOfTrace(Tail(trace))

\* C23: in extract_schedule_*_from_pdf no rows are collected from the pages before
\* the first page with the schedule's header; from that page on every page gone
\* through is segmented, until a page reports the boundary marker; after such a
\* page no later page is gone through or adds rows, and the loop ends only there
\* or after the last page.
C23_ScheduleLifecycle ==
    ex_schedule # "none" =>
        /\ ex_rows = RowsOfTrace(ex_trace)
        /\ \A p \in 1..Len(ex_trace) :
               IF \E h \in HeaderPages : h <= p
               THEN ex_trace[p].outcome = "segmented"
               ELSE ex_trace[p].outcome = "skipped" /\ ex_trace[p].rows = <<>>
        /\ \A p \in ReportedPages : p = Len(ex_trace) /\ ex_pc \in {"broke", "returned"}
        /\ ex_pc \in {"broke", "returned"} =>
               (ReportedPages # {} \/ Len(ex_trace) = Len(ex_pages))

\* a PDF of three pages returned: the first page, before the header, was passed
\* over; the second, with header and marker, gave rows and reported the marker;
\* the third, with a body line, was never gone through
C23_Witness ==
    /\ ex_pc = "returned"
    /\ Len(ex_pages) = 3
    /\ ex_pages[1] = BodyLine
    /\ ex_pages[3] = BodyLine
    /\ Len(ex_trace) = 2
    /\ ex_trace[1].outcome = "skipped"
    /\ ex_trace[2].outcome = "segmented"
    /\ ex_trace[2].rows # <<>>
    /\ ex_trace[2].reached
    /\ ex_rows = ex_trace[2].rows

(***************************************************************************)
(* Claims about the words a segmenter of Schedule C, D, E or F keeps.      *)
(***************************************************************************)

RECURSIVE CellTokens(_)
\* the words of a cell, from left to right
CellTokens(cell) ==
    IF cell = "" THEN <<>>
    ELSE IF Char(cell, 1) = " " THEN CellTokens(Tail(cell))
    ELSE LET n == SetMin({i \in 1..(Len(cell) + 1) : i > Len(cell) \/ Char(cell, i) = " "})
         IN  <<SubSeq(cell, 1, n - 1)>> \o CellTokens(SubSeq(cell, n, Len(cell)))

RECURSIVE ColumnTokens(_, _)
\* the words of column c of the rows, from the first row to the last
ColumnTokens(rows, c) ==
    IF rows = <<>> THEN <<>>
    ELSE CellTokens(Head(rows)[c]) \o ColumnTokens(Tail(rows), c)

\* the word is a URL, a footnote or (Schedule D) the label of the schedule
PassedOver(s, text) ==
    \/ StartsWith(Lower(text), "https://")
    \/ StartsWith(Lower(text), "* asset class")
    \/ (s = "D" /\ Lower(text) = "liability")

\* the word lies below the header offset and above the boundary cutoff, has a
\* text that is not blank, and is not passed over
Eligible(w) ==
    /\ w.top > HeaderTopInForce + HeaderOffset(page_schedule)
    /\ \A m \in Markers(page_schedule, page_words) : w.top < m - 1
    /\ Strip(w.text) # ""
    /\ ~PassedOver(page_schedule, Strip(w.text))

\* the eligible words of column c in (top, x0) order, words of one position in
\* the order of the page
EligibleTokens(c) ==
    LET kept == SelectSeq(SortByTopX0(page_words),
                    LAMBDA w : Eligible(w)
                               /\ WordColumn(page_schedule, w, ColumnStartsInForce) = c)
    IN  [i \in 1..Len(kept) |-> Strip(kept[i].text)]

\* C26: on a page of Schedule C, D, E or F every word that lies below the header
\* offset and above the boundary cutoff, has a text that is not blank and is not
\* a passed-over URL, footnote or label is in exactly one returned row, in the
\* column the column assigner chooses, and the words of a cell keep their
\* (top, x0) order: the words of each column, read from the first row to the
\* last, are the eligible words of that column in sorted order, none lost and
\* none twice.
C26_EligibleWordsConserved ==
    (PageSegmented /\ page_schedule \in ConserveSchedules) =>
        /\ \A r \in 1..Len(page_result.rows) :
              Len(page_result.rows[r]) = ColumnCount(page_schedule)
        /\ \A c \in 1..ColumnCount(page_schedule) :
              ColumnTokens(page_result.rows, c) = EligibleTokens(c)

\* a page of Schedule D whose two body words went to one cell in sorted order,
\* the later word of the page first
C26_Witness ==
    /\ PageSegmented
    /\ page_schedule = "D"
    /\ Len(page_words) = 2
    /\ page_words[1].top > page_words[2].top
    /\ page_result.rows = << <<"w2 w1", "", "", "", "">> >>

\* the word has a text that is not blank, is not passed over, and lies above the
\* boundary cutoff
KeptWhereverItSits(w) ==
    /\ \A m \in Markers(page_schedule, page_words) : w.top < m - 1
    /\ Strip(w.text) # ""
    /\ ~PassedOver(page_schedule, Strip(w.text))

\* the text of the word is a word of some cell of the returned rows
InSomeRow(w) ==
    \E c \in 1..ColumnCount(page_schedule) :
        \E i \in 1..Len(ColumnTokens(page_result.rows, c)) :
            ColumnTokens(page_result.rows, c)[i] = Strip(w.text)

\* C27: on a page that continues a schedule (header on an earlier page, none on
\* this page) every word that is not blank, not passed over and above the
\* boundary cutoff is in some segmented row, wherever it sits on the page.
C27_ContinuationWordsKept ==
    (PageSegmented /\ header_info.kind = "none" /\ carried.collecting) =>
        \A k \in 1..Len(page_words) :
            KeptWhereverItSits(page_words[k]) => InSomeRow(page_words[k])
\* the input is missing: the path does not exist, or the directory given to a
\* directory entry point holds no PDF
InputMissing ==
    \/ ~source.exists
    \/ (entry \in DirectoryEntryPoints /\ (~source.is_dir \/ source.files = <<>>))

\* C9: with the input missing, the entry point does nothing to the output side
\* (nothing created, written or deleted) and can only end by raising.
C9_MissingInputFailsBeforeOutput ==
    (entry # "none" /\ InputMissing) => (fs_ops = <<>> /\ pc \in {"start", "raised"})

C9_Witness ==
    /\ entry = "process_reports"
    /\ source.exists /\ source.is_dir /\ source.files = <<>>
    /\ prior_outputs
    /\ pc = "raised"
    /\ fs_ops = <<>>

\* C10: when a batch entry point has ended, the output of every readable PDF
\* of the batch has been produced, whatever happened to the other PDFs.
C10_FailureDoesNotBlockTheRest ==
    (entry \in DirectoryEntryPoints /\ pc \in {"raised", "returned"} /\ ~InputMissing)
        => \A i \in 1..Len(source.files) : source.files[i] = "good" => i \in produced


(***************************************************************************)
(* Claims about AZReportParser.                                            *)
(***************************************************************************)

\* the lines of the schedule before its first total line
BeforeTotal(lines, totals) ==
    LET stops == {i \in 1..Len(lines) : \E t \in totals : StartsWith(lines[i], t)}
    IN  IF stops = {} THEN lines ELSE SubSeq(lines, 1, SetMin(stops) - 1)

\* where the entry blocks of a contribution schedule start: its first line and
\* every name line
BlockStarts(lines) == {i \in 1..Len(lines) : i = 1 \/ _is_name_line(lines[i])}

\* the block that starts at line i
Block(lines, i) ==
    LET later == {j \in BlockStarts(lines) : j > i}
    IN  SubSeq(lines, i, IF later = {} THEN Len(lines) ELSE SetMin(later) - 1)

HasDateAmountLine(block) == \E k \in 1..Len(block) : DateAmountSearch(block[k]) # None

RECURSIVE BlocksFrom(_, _)
BlocksFrom(lines, starts) ==
    IF starts = {} THEN <<>>
    ELSE <<Block(lines, SetMin(starts))>> \o BlocksFrom(lines, starts \ {SetMin(starts)})

ContributionBlocks ==
    LET lines == BeforeTotal(_collect_schedule_lines(az_pages, _SCHEDULE_MARKERS[1]),
                             ContributionBoundaries)
    IN  BlocksFrom(lines, BlockStarts(lines))

ContributionsReturned == az_call = "parse_contributions" /\ az_entries.state = "returned"

\* C11: parse_contributions drops every entry block that has no date/amount line
\* and emits every block that has one, in input order: the raw texts of the
\* returned entries are exactly the blocks with a date/amount line, in order.
C11_MalformedBlockDroppedRestEmitted ==
    ContributionsReturned =>
        LET kept == SelectSeq(ContributionBlocks, HasDateAmountLine)
        IN  /\ Len(az_entries.entries) = Len(kept)
            /\ \A k \in 1..Len(kept) :
                  az_entries.entries[k].raw_text = JoinWith(kept[k], "\n")

\* a block without a date/amount line stands before a block that has one, and
\* the later block was emitted
C11_Witness ==
    /\ ContributionsReturned
    /\ \E i, j \in 1..Len(ContributionBlocks) :
          /\ i < j
          /\ ~HasDateAmountLine(ContributionBlocks[i])
          /\ HasDateAmountLine(ContributionBlocks[j])
          /\ \E k \in 1..Len(az_entries.entries) :
                az_entries.entries[k].raw_text = JoinWith(ContributionBlocks[j], "\n")

VendorReturned ==
    /\ az_call \in {"parse_operating_expenses", "parse_other_receipts"}
    /\ az_entries.state = "returned"

VendorScheduleLines ==
    BeforeTotal(_collect_schedule_lines(az_pages, MarkerOf(az_call)), {"Total"})

\* a well-formed vendor entry starts at line i: a vendor name directly followed
\* by the entry's date/amount line, and standing first or after a labelled or
\* date line, so that it cannot be read as an address line of an earlier vendor
WellFormedVendorAt(lines, i) ==
    /\ i < Len(lines)
    /\ _looks_like_vendor_line(lines[i])
    /\ DateNameLineMatch(lines[i + 1])
    /\ i = 1 \/ Contains(lines[i - 1], ":")

\* a vendor block without a date/amount line starts at line i and runs to line
\* j - 1: a vendor name, standing first or after a labelled or date line, and
\* no date/amount line up to line j - 1
BlockLacksDateLine(lines, i, j) ==
    /\ i < j
    /\ _looks_like_vendor_line(lines[i])
    /\ i = 1 \/ Contains(lines[i - 1], ":")
    /\ \A k \in i..(j - 1) : ~DateNameLineMatch(lines[k])

\* C12: a vendor block without a date/amount line is not fatal: every well-formed
\* vendor entry that follows it before the "Total" line is returned.
C12_WellFormedVendorsReturned ==
    VendorReturned =>
        \A i, j \in 1..Len(VendorScheduleLines) :
            (/\ BlockLacksDateLine(VendorScheduleLines, i, j)
             /\ WellFormedVendorAt(VendorScheduleLines, j)) =>
                \E k \in 1..Len(az_entries.entries) :
                    /\ az_entries.entries[k].name = VendorScheduleLines[j]
                    /\ StartsWith(az_entries.entries[k].raw_text,
                                  VendorScheduleLines[j] \o "\n" \o VendorScheduleLines[j + 1])

(***************************************************************************)
(* Claims about _collect_schedule_lines.                                   *)
(***************************************************************************)

CollectReturned == az_entries.state = "returned"

\* line i of page p, cleaned
PageLine(p, i) == _clean_line(az_pages[p][i])

IsOtherMarker(line) ==
    \E k \in 1..Len(_SCHEDULE_MARKERS) :
        _SCHEDULE_MARKERS[k] # az_call.marker /\ Contains(line, _SCHEDULE_MARKERS[k])

IsReturned(line) == \E k \in 1..Len(az_entries.entries) : az_entries.entries[k] = line

\* line i of page p follows the requested marker on its page, with no other
\* schedule's marker between the two
FollowsRequested(p, i) ==
    \E m \in 1..(i - 1) :
        /\ Contains(PageLine(p, m), az_call.marker)
        /\ \A j \in (m + 1)..i : ~IsOtherMarker(PageLine(p, j))

\* the nearest marker before line i of page p, on the page or on a page before
\* it, is that of another schedule
FollowsOther(p, i) ==
    \E q \in 1..p : \E m \in 1..Len(az_pages[q]) :
        /\ q < p \/ m < i
        /\ IsOtherMarker(PageLine(q, m))
        /\ \A r \in q..p : \A j \in 1..Len(az_pages[r]) :
              ((r > q \/ j > m) /\ (r < p \/ j < i)) =>
                  ~Contains(PageLine(r, j), az_call.marker)

\* C30: whenever the requested marker is on a page, the lines after it on that
\* page that are no header lines, up to the next marker of another schedule, are
\* returned, also when another schedule's marker stands earlier on the page;
\* and no line that follows another schedule's marker is returned.
C30_SectionLinesReturned ==
    CollectReturned =>
        \A p \in 1..Len(az_pages) : \A i \in 1..Len(az_pages[p]) :
            /\ (/\ FollowsRequested(p, i)
                /\ PageLine(p, i) # ""
                /\ ~_is_header_line(PageLine(p, i))) => IsReturned(PageLine(p, i))
            /\ FollowsOther(p, i) => ~IsReturned(PageLine(p, i))


(***************************************************************************)
(* Claims about gather_schedule_rows.                                      *)
(***************************************************************************)
ExampleLoanTable ==
    <<TextRow(<<"Owner", "Type", "Name">>), TextRow(<<"SP", "Loan", "Example Bank">>)>>

ExampleLoanGathered ==
    /\ pofd_tables = <<ExampleLoanTable>>
    /\ pofd_rows.state = "returned"

\* C13: the table with the header row (Owner, Type, Name) and the single data row
\* (SP, Loan, Example Bank) yields exactly one record, filed under LoansAndDebts,
\* with Owner = "SP", Type = "Loan" and Name = "Example Bank".
C13_LoanTableYieldsOneRecord ==
    ExampleLoanGathered =>
        /\ \A name \in DOMAIN pofd_rows.schedule_rows :
              Len(pofd_rows.schedule_rows[name]) = (IF name = "LoansAndDebts" THEN 1 ELSE 0)
        /\ pofd_rows.schedule_rows["LoansAndDebts"][1]["Owner"] = "SP"
        /\ pofd_rows.schedule_rows["LoansAndDebts"][1]["Type"] = "Loan"
        /\ pofd_rows.schedule_rows["LoansAndDebts"][1]["Name"] = "Example Bank"

\* the example table has been gathered and its record is there
C13_Witness ==
    /\ ExampleLoanGathered
    /\ Len(pofd_rows.schedule_rows["LoansAndDebts"]) = 1

(***************************************************************************)
(* Claims about write_excel.                                               *)
(***************************************************************************)
HasRows(key) == key \in DOMAIN xl_rows /\ xl_rows[key] # <<>>

HasNotes(key) == key \in DOMAIN xl_notes /\ xl_notes[key] # <<>>

\* C14: write_excel writes exactly one sheet for each schedule A..I, in
\* SCHEDULE_ORDER, whatever was extracted: the data rows under the schedule's
\* fixed column list when the schedule has rows, otherwise its notes, otherwise
\* the single placeholder "No data extracted.".
C14_OneSheetPerSchedule ==
    xl_sheets.state = "written" =>
        /\ Len(xl_sheets.sheets) = 9
        /\ \A k \in 1..9 :
              LET key == SubSeq("ABCDEFGHI", k, k)
                  sheet == xl_sheets.sheets[k]
              IN  /\ sheet.sheet_name = "Schedule " \o key
                  /\ HasRows(key) =>
                        sheet.columns = SCHEDULE_COLUMNS[key] /\ sheet.data = xl_rows[key]
                  /\ (~HasRows(key) /\ HasNotes(key)) =>
                        /\ sheet.columns = <<"Notes">>
                        /\ sheet.data = [i \in 1..Len(xl_notes[key]) |-> <<xl_notes[key][i]>>]
                  /\ (~HasRows(key) /\ ~HasNotes(key)) =>
                        sheet.columns = <<"Notes">> /\ sheet.data = <<<<"No data extracted.">>>>

\* a workbook written from a disclosure with a schedule that has rows, one that
\* has only notes, one that was seen without rows or notes, and one never found
C14_Witness ==
    /\ xl_sheets.state = "written"
    /\ \E a, b, c, d \in ScheduleKeysAtoI :
          /\ HasRows(a)
          /\ ~HasRows(b) /\ HasNotes(b)
          /\ c \in DOMAIN xl_rows /\ ~HasRows(c) /\ ~HasNotes(c)
          /\ d \notin DOMAIN xl_rows /\ d \notin DOMAIN xl_notes

(***************************************************************************)
(* Claims about csv_to_workbook.                                           *)
(***************************************************************************)
ExcelCompliant(title) ==
    /\ title # ""
    /\ Len(title) <= 31
    /\ \A i \in 1..Len(title) : Char(title, i) \notin {":", "\\", "/", "?", "*", "[", "]"}

\* C15: after any sequence of add_csv_to_workbook calls on one workbook all sheet
\* titles are pairwise distinct and Excel-compliant: non-empty, at most 31
\* characters, and free of : \ / ? * [ ].
C15_SheetTitlesDistinctAndCompliant ==
    /\ \A i, j \in 1..Len(sheetnames) : i # j => sheetnames[i] # sheetnames[j]
    /\ \A i \in 1..Len(sheetnames) : ExcelCompliant(sheetnames[i])

(***************************************************************************)
(* Claims about the column assigners.                                      *)
(***************************************************************************)

\* the margin subtracted from the start of column i (i >= 2) in schedule s
Margin(s, i) ==
    IF i = 2 THEN (IF s \in {"A", "B"} THEN 15 ELSE IF s \in {"C", "D"} THEN 10 ELSE 5)
    ELSE 5

\* the limit below which x0 stays left of column i
Limit(i) == col_starts[i] - Margin(col_schedule, i)

\* the columns i >= 2 whose limit x0 has reached
ReachedColumns == {i \in 2..Len(col_starts) : col_x0 >= Limit(i)}

\* the column with the largest index whose limit x0 has reached, the first
\* column when there is none
LargestReached == IF ReachedColumns = {} THEN 1 ELSE SetMax(ReachedColumns)

\* the column before the first limit that lies above x0, the last column when
\* there is none
BeforeFirstLimitAbove ==
    LET above == {i \in 2..Len(col_starts) : col_x0 < Limit(i)}
    IN  IF above = {} THEN Len(col_starts) ELSE SetMin(above) - 1

LimitsNondecreasing == \A i \in 2..(Len(col_starts) - 1) : Limit(i) <= Limit(i + 1)

ParseDone == dp_idx >= Len(dp_lines)

\* the schedule and the part an entry of the results list is to carry
KeySchedule(key) ==
    CASE key = "schedule_ii_part_g" -> "II"
      [] key = "schedule_iii" -> "III"
      [] OTHER -> "I"

KeyPart(key) ==
    CASE key = "schedule_i_part_a" -> "A"
      [] key = "schedule_i_part_b" -> "B"
      [] key = "schedule_i_part_c" -> "C"
      [] key = "schedule_i_part_d" -> "D"
      [] key = "schedule_i_part_e" -> "E"
      [] key = "schedule_ii_part_g" -> "G"
      [] OTHER -> ""

\* the entry the step has appended to the list of the key
Appended(key) == dp_results'[key][Len(dp_results'[key])]

\* the step appends one entry to the list of the key and leaves the other lists
AppendsTo(key) ==
    /\ Len(dp_results'[key]) = Len(dp_results[key]) + 1
    /\ SubSeq(dp_results'[key], 1, Len(dp_results[key])) = dp_results[key]
    /\ \A other \in ResultKeys \ {key} : dp_results'[other] = dp_results[other]

\* the step appends an entry whose schedule and part are those of its list and
\* those in force
CarriesItsBranch(key) ==
    /\ Appended(key).schedule = KeySchedule(key)
    /\ dp_schedule = "SCHEDULE " \o KeySchedule(key)
    /\ key # "schedule_iii" =>
          (Appended(key).part = KeyPart(key) /\ dp_part = KeyPart(key))

\* C28: DocumentParser.parse terminates on every finite list of lines: the loop
\* runs only while self.idx is short of the end, every iteration moves self.idx
\* forward (every sub-parser returns an index beyond the one it started at), so
\* there are never more iterations than lines, and every entry appended carries
\* the schedule and part of the branch that produced it.
C28_ParseTerminates ==
    [][/\ dp_idx < Len(dp_lines)
       /\ dp_idx' > dp_idx
       /\ dp_steps' = dp_steps + 1
       /\ dp_steps' <= Len(dp_lines)
       /\ \/ dp_results' = dp_results
          \/ \E key \in ResultKeys : AppendsTo(key) /\ CarriesItsBranch(key)]_vars

\* the parse of a document that is through, with an entry that a sub-parser read
\* to beyond the last line and an entry of another call after it
C28_Witness ==
    /\ ParseDone
    /\ dp_idx > Len(dp_lines)
    /\ \E key \in ResultKeys : Len(dp_results[key]) = 2

\* the lines an entry step has consumed: from the opening line to the line
\* before the index the sub-parser returned
ConsumedLines ==
    {j \in (dp_idx + 1)..(IF dp_idx' < Len(dp_lines) THEN dp_idx' ELSE Len(dp_lines)) : TRUE}

\* the page of the nearest "PAGE n" header line before the current line, 0 when
\* there is none
NearestPage ==
    LET headers == {j \in 1..dp_idx : StartsWith(clean(dp_lines[j]), "PAGE ")}
    IN  IF headers = {} THEN 0 ELSE PageNumber(clean(dp_lines[SetMax(headers)]))

\* C29: every "PAGE n", "SCHEDULE ..." and "PART x" header line updates the
\* parser's state before any later entry is parsed: an entry is given the page of
\* the nearest header line before it, and no header line is among the lines a
\* sub-parser consumes as the fields of an entry.
C29_HeadersKeepContext ==
    [][\A key \in ResultKeys : AppendsTo(key) =>
           /\ \A j \in ConsumedLines : ~IsHeaderLine(clean(dp_lines[j]))
           /\ Appended(key).page = NearestPage]_vars
====
